---- MODULE Spec2Model ----
(***************************************************************************)
(* Model of the SWE-bench local evaluation harness (uv/conda variant):     *)
(*   swebench/harness/run_evaluation.py   main, get_dataset_from_preds,    *)
(*                                        run_instances, run_instance      *)
(*   swebench/harness/uv_env.py           create_env                       *)
(*   swebench/harness/test_spec/*.py      make_test_spec and generators    *)
(*                                                                         *)
(* The filesystem (per-instance log directories, environment directories), *)
(* the process-wide search path and the logging registry are the shared    *)
(* state.  Every subprocess is one step of the worker that runs it and     *)
(* ends with exit status 0 or not, chosen nondeterministically.            *)
(***************************************************************************)
EXTENDS Integers, Sequences, FiniteSets, TLC

\* ------------------------------------------------------------------ bounds
\* Entry-point invocations (main, or a direct call of run_instance or
\* create_env) issued in one behaviour.
MaxCalls == 2

\* Environment directories deleted from the cache in one behaviour.
MaxRemovals == 1

\* Calls of run_instances with ready plans.
MaxBatches == 1

\* ------------------------------------------------------------- the universe
Workers == {"w1", "w2"}

\* The dataset, in dataset order (load_swebench_dataset is external).
Dataset == <<"i1", "i2", "i3", "i4">>

Instances == {Dataset[n] : n \in 1..Len(Dataset)}

\* An id that predictions may hold and the dataset does not.
StrayId == "ix"

RunId == "r1"

ModelName == "org/m"

\* Prediction patches: a real diff, the empty string, null.
P_DIFF == "diff"

P_EMPTY == ""

P_NULL == "None"

Patches == {P_DIFF, P_EMPTY, P_NULL}

\* ------------------------------------------------------ per-instance files
LOG_REPORT == "report.json"

LOG_INSTANCE == "run_instance.log"

LOG_TEST_OUTPUT == "eval_out.txt"

FileNames == {LOG_REPORT, LOG_INSTANCE, LOG_TEST_OUTPUT, "patch.diff", "repo.sh", "eval.sh", "work"}

ABSENT == "absent"

\* str.replace("/", "__") on the model name.
SanitizeModel(m) == IF m = "org/m" THEN "org__m" ELSE m

\* RUN_EVALUATION_LOG_DIR / run_id / model / instance_id
LogDir(run, model, iid) == <<run, SanitizeModel(model), iid>>

\* A larger dataset, for get_dataset_from_preds taken alone.
WideDataset == <<"i1", "i2", "i3">>

WideInstances == {WideDataset[n] : n \in 1..Len(WideDataset)}

LogDirs == {LogDir(RunId, ModelName, i) : i \in Instances \cup WideInstances}

\* ------------------------------------------------------------ environments
UV_ENVS_DIR == "swe_uv_envs"

CONDA_ENVS_DIR == "swe_conda_envs"

EnvPath(root, name) == [root |-> root, name |-> name]

NoEnv == EnvPath("", "")

\* A setup command: what it does, the environment name it carries (-n/--name)
\* and the environment path it carries (--prefix).
Cmd(op, name) == [op |-> op, name |-> name, prefix |-> NoEnv]

ENV_NAME_PLACEHOLDER == "___ENV_NAME_PLACEHOLDER___"

\* hashlib.sha256(text).hexdigest()[:22], collision-free: the digest names
\* the text it was taken of.  enc is how the list was turned into text,
\* str(list) in make_test_spec and "\n".join(list) in _hash_scripts.
Sha22(enc, scripts) == "sha:" \o enc \o ":" \o ToString(scripts)

_hash_scripts(scripts) == Sha22("join", scripts)

\* ------------------------------------------------------------------- state
VARIABLES
  fs,        \* [LogDirs -> [FileNames -> content]], ABSENT when there is no file
  envs,      \* environment directories that exist -> "partial" or "complete"
  osPath,    \* first entry of os.environ["PATH"] of the harness process
  handlers,  \* logging.getLogger(instance_id).handlers, as a count
  pc,        \* per worker: where it stands in run_instance / create_env
  call,      \* per worker: the arguments of the call it runs (or ran last)
  ce,        \* per worker: create_env's frame
  loc,       \* per worker: run_instance's locals
  tr,        \* per worker: the subprocesses the call has run, in order
  out,       \* per worker: how the call ended
  mainpc,    \* main: "idle" or "pool" (run_threadpool is running)
  queue,     \* payloads run_threadpool has not started yet
  mainOut,   \* how the last main call ended
  gd,        \* arguments and result of the last call of get_dataset_from_preds
  ncalls,    \* entry-point invocations so far
  ts,        \* instances given to make_test_spec and the plans it returned
  removed,   \* environment directories that were deleted from the cache
  installed, \* <<environment, instance>>: the instance's scripts installed into it
  sc         \* a script builder taken alone: its arguments and what it returned

vars == <<fs, envs, osPath, handlers, pc, call, ce, loc, tr, out, mainpc, queue, mainOut, gd, ncalls, ts, removed, installed, sc>>

auxVars == <<ts, removed, installed, sc>>

diskVars == <<fs, envs, osPath, handlers>>

mainVars == <<mainpc, queue, mainOut, gd>>

NONE == "None"

NoPlan == [env_key |-> "", env_manager |-> "", env_script_list |-> <<>>]

NoCall == [fn |-> "none", origin |-> "", inst |-> "", model |-> "", patch |-> "", rewrite |-> FALSE, plan |-> NoPlan]

NoFrame == [scripts |-> <<>>, mgr |-> "", key |-> "", path |-> NoEnv, idx |-> 0]

NoLocals == [env_path |-> NoEnv, k |-> 0, applied |-> FALSE]

NoOut == [kind |-> "none", exc |-> "", path |-> NoEnv, report |-> ""]

NoGd == [called |-> FALSE, instance_ids |-> <<>>, predictions |-> <<>>, rewrite_reports |-> FALSE, exclude_completed |-> TRUE, raised |-> FALSE, dataset |-> <<>>]

EmptyDir == [f \in FileNames |-> ABSENT]

NoTs == [called |-> FALSE, instances |-> <<>>, plans |-> <<>>]

\* A specs entry without the key (the builders test `key in specs`).
NO_KEY == "<no key>"

NoSpecs == [packages |-> "", pip_packages |-> <<>>, pre_install |-> <<>>, install |-> NO_KEY,
            eval_commands |-> <<>>, test_cmd |-> ""]

NoArg == [repo |-> "", version |-> "", manifest |-> "", specs |-> NoSpecs, base_commit |-> "",
          test_patch |-> "", scripts |-> <<>>]

NoResult == [cmds |-> <<>>, kind |-> ""]

NoSc == [called |-> FALSE, fn |-> "", arg |-> NoArg, result |-> NoResult]

Init ==
  /\ fs = [d \in LogDirs |-> EmptyDir]
  /\ envs = [p \in {} |-> ""]
  /\ osPath = NoEnv
  /\ handlers = [i \in Instances |-> 0]
  /\ pc = [w \in Workers |-> "idle"]
  /\ call = [w \in Workers |-> NoCall]
  /\ ce = [w \in Workers |-> NoFrame]
  /\ loc = [w \in Workers |-> NoLocals]
  /\ tr = [w \in Workers |-> <<>>]
  /\ out = [w \in Workers |-> NoOut]
  /\ mainpc = "idle"
  /\ queue = <<>>
  /\ mainOut = "none"
  /\ gd = NoGd
  /\ ncalls = 0
  /\ ts = NoTs
  /\ removed = {}
  /\ installed = {}
  /\ sc = NoSc

\* --------------------------------------------------------------- helpers
EnvExists(e, p) == p \in DOMAIN e

\* The directory p in state c (created when it is not there).
EnvPut(e, p, c) == [q \in DOMAIN e \cup {p} |-> IF q = p THEN c ELSE e[q]]

\* A directory is "partial" from its creation until a build has run its last
\* command in it with exit status 0; from then on it is "complete".
PARTIAL == "partial"

COMPLETE == "complete"

\* The build that ran its last command: p is complete, when p is there.
EnvDone(e, p, last) == IF last /\ EnvExists(e, p) THEN EnvPut(e, p, COMPLETE) ELSE e

\* A subprocess that was given env=...: VIRTUAL_ENV and the first PATH entry
\* of that dictionary are recorded with its exit status.
Run(name, ok, venv, path) == [step |-> name, ok |-> ok, venv |-> venv, path |-> path]

\* A subprocess started without env=: it inherits the process environment.
Step(name, ok) == Run(name, ok, NoEnv, NoEnv)

Raised(exc) == [kind |-> "raised", exc |-> exc, path |-> NoEnv, report |-> ""]

ReturnedPath(p) == [kind |-> "path", exc |-> "", path |-> p, report |-> ""]

ReturnedReport(r) == [kind |-> "report", exc |-> "", path |-> NoEnv, report |-> r]

ReturnedNone == [kind |-> "None", exc |-> "", path |-> NoEnv, report |-> ""]

\* The worker's call ends with outcome o (a return value or an exception).
Finish(w, o) ==
  /\ pc' = [pc EXCEPT ![w] = "done"]
  /\ out' = [out EXCEPT ![w] = o]

\* ------------------------------------------------------------- create_env
IsCreateCmd(cmd) == cmd.op \in {"conda env create", "conda create"}

\* The command the conda backend executes for cmd: a create command loses its
\* -n/--name flag and gets --prefix env_path unless it carries a --prefix.
CondaRewrite(cmd, env_path) ==
  IF IsCreateCmd(cmd)
  THEN [cmd EXCEPT !.name = "", !.prefix = IF cmd.prefix = NoEnv THEN env_path ELSE cmd.prefix]
  ELSE cmd

\* An exception leaves create_env: the direct caller gets it; in run_instance
\* the call stands before the try block, so it leaves run_instance too.
CE_Raise(w, exc) == Finish(w, Raised(exc))

\* CE_Enter without the existence check: every call builds.
CE_Enter_NoCache(w) ==
  /\ pc[w] = "ce_enter"
  /\ LET f == ce[w]
         key == IF f.key = NONE THEN _hash_scripts(f.scripts) ELSE f.key
     IN \/ /\ f.mgr = "conda"
           /\ ce' = [ce EXCEPT ![w] = [f EXCEPT !.key = key, !.path = EnvPath(CONDA_ENVS_DIR, key), !.idx = 1]]
           /\ pc' = [pc EXCEPT ![w] = "ce_conda"]
           /\ UNCHANGED out
        \/ /\ f.mgr = "uv"
           /\ ce' = [ce EXCEPT ![w] = [f EXCEPT !.key = key, !.path = EnvPath(UV_ENVS_DIR, key), !.idx = 1]]
           /\ pc' = [pc EXCEPT ![w] = "ce_uv_venv"]
           /\ UNCHANGED out
        \/ /\ f.mgr \notin {"conda", "uv"}
           /\ CE_Raise(w, "ValueError")
           /\ UNCHANGED ce
  /\ UNCHANGED <<diskVars, mainVars, auxVars, call, loc, tr, ncalls>>

\* CE_Enter of a process that remembers the directories it has seen: a
\* directory that was deleted still counts as there.
CE_Enter_Remembered(w) ==
  /\ pc[w] = "ce_enter"
  /\ LET f == ce[w]
         key == IF f.key = NONE THEN _hash_scripts(f.scripts) ELSE f.key
     IN \/ /\ f.mgr = "conda"
           /\ LET path == EnvPath(CONDA_ENVS_DIR, key)
              IN /\ ce' = [ce EXCEPT ![w] = [f EXCEPT !.key = key, !.path = path, !.idx = 1]]
                 /\ pc' = [pc EXCEPT ![w] =
                           IF EnvExists(envs, path) \/ path \in removed THEN "ce_activate" ELSE "ce_conda"]
           /\ UNCHANGED out
        \/ /\ f.mgr = "uv"
           /\ LET path == EnvPath(UV_ENVS_DIR, key)
              IN /\ ce' = [ce EXCEPT ![w] = [f EXCEPT !.key = key, !.path = path, !.idx = 1]]
                 /\ pc' = [pc EXCEPT ![w] =
                           IF EnvExists(envs, path) \/ path \in removed THEN "ce_activate" ELSE "ce_uv_venv"]
           /\ UNCHANGED out
        \/ /\ f.mgr \notin {"conda", "uv"}
           /\ CE_Raise(w, "ValueError")
           /\ UNCHANGED ce
  /\ UNCHANGED <<diskVars, mainVars, auxVars, call, loc, tr, ncalls>>

\* CE_Enter with a claim on the target: a directory that another call is
\* building counts as there.
CE_Enter_Claimed(w) ==
  /\ pc[w] = "ce_enter"
  /\ LET f == ce[w]
         key == IF f.key = NONE THEN _hash_scripts(f.scripts) ELSE f.key
         claimed(path) == \E v \in Workers \ {w} :
                            /\ pc[v] \in {"ce_conda", "ce_uv_venv", "ce_uv_pin", "ce_uv_cmd"}
                            /\ ce[v].path = path
     IN \/ /\ f.mgr = "conda"
           /\ LET path == EnvPath(CONDA_ENVS_DIR, key)
              IN /\ ce' = [ce EXCEPT ![w] = [f EXCEPT !.key = key, !.path = path, !.idx = 1]]
                 /\ pc' = [pc EXCEPT ![w] =
                           IF EnvExists(envs, path) \/ f.scripts = <<>> \/ claimed(path)
                           THEN "ce_activate" ELSE "ce_conda"]
           /\ UNCHANGED out
        \/ /\ f.mgr = "uv"
           /\ LET path == EnvPath(UV_ENVS_DIR, key)
              IN /\ ce' = [ce EXCEPT ![w] = [f EXCEPT !.key = key, !.path = path, !.idx = 1]]
                 /\ pc' = [pc EXCEPT ![w] =
                           IF EnvExists(envs, path) \/ claimed(path) THEN "ce_activate" ELSE "ce_uv_venv"]
           /\ UNCHANGED out
        \/ /\ f.mgr \notin {"conda", "uv"}
           /\ CE_Raise(w, "ValueError")
           /\ UNCHANGED ce
  /\ UNCHANGED <<diskVars, mainVars, auxVars, call, loc, tr, ncalls>>

\* Lines 88-99 and 122-128: default key, backend dispatch, existence check.
CE_Enter(w) ==
  /\ pc[w] = "ce_enter"
  /\ LET f == ce[w]
         key == IF f.key = NONE THEN _hash_scripts(f.scripts) ELSE f.key
     IN \/ /\ f.mgr = "conda"
           /\ LET path == EnvPath(CONDA_ENVS_DIR, key)
              IN /\ ce' = [ce EXCEPT ![w] = [f EXCEPT !.key = key, !.path = path, !.idx = 1]]
                 /\ pc' = [pc EXCEPT ![w] =
                           IF EnvExists(envs, path) \/ f.scripts = <<>> THEN "ce_activate" ELSE "ce_conda"]
           /\ UNCHANGED out
        \/ /\ f.mgr = "uv"
           /\ LET path == EnvPath(UV_ENVS_DIR, key)
              IN /\ ce' = [ce EXCEPT ![w] = [f EXCEPT !.key = key, !.path = path, !.idx = 1]]
                 /\ pc' = [pc EXCEPT ![w] =
                           IF EnvExists(envs, path) THEN "ce_activate" ELSE "ce_uv_venv"]
           /\ UNCHANGED out
        \/ /\ f.mgr \notin {"conda", "uv"}
           /\ CE_Raise(w, "ValueError")
           /\ UNCHANGED ce
  /\ UNCHANGED <<diskVars, mainVars, auxVars, call, loc, tr, ncalls>>

\* Lines 107-118: one command of the conda backend.
CE_CondaCmd(w) ==
  /\ pc[w] = "ce_conda"
  /\ LET f == ce[w]
         cmd == CondaRewrite(f.scripts[f.idx], f.path)
     IN \/ /\ tr' = [tr EXCEPT ![w] = Append(@, Step("env_cmd", TRUE))]
           /\ envs' = EnvDone(IF IsCreateCmd(cmd) THEN EnvPut(envs, cmd.prefix, PARTIAL) ELSE envs,
                              f.path, f.idx = Len(f.scripts))
           /\ ce' = [ce EXCEPT ![w].idx = f.idx + 1]
           /\ pc' = [pc EXCEPT ![w] = IF f.idx = Len(f.scripts) THEN "ce_activate" ELSE "ce_conda"]
           /\ UNCHANGED out
        \/ /\ tr' = [tr EXCEPT ![w] = Append(@, Step("env_cmd", FALSE))]
           \* a create command that fails may have populated its prefix
           /\ \/ UNCHANGED envs
              \/ /\ IsCreateCmd(cmd)
                 /\ ~EnvExists(envs, cmd.prefix)
                 /\ envs' = EnvPut(envs, cmd.prefix, PARTIAL)
           /\ CE_Raise(w, "CalledProcessError")
           /\ UNCHANGED ce
  /\ UNCHANGED <<fs, osPath, handlers, mainVars, auxVars, call, loc, ncalls>>

\* Lines 129-133: pick the interpreter, then `uv venv`.
CE_UvVenv(w) ==
  /\ pc[w] = "ce_uv_venv"
  /\ \/ /\ CE_Raise(w, "RuntimeError")
        /\ UNCHANGED <<tr, envs>>
     \/ /\ tr' = [tr EXCEPT ![w] = Append(@, Step("uv_venv", TRUE))]
        /\ envs' = EnvPut(envs, ce[w].path, PARTIAL)
        /\ pc' = [pc EXCEPT ![w] = "ce_uv_pin"]
        /\ UNCHANGED out
     \/ /\ tr' = [tr EXCEPT ![w] = Append(@, Step("uv_venv", FALSE))]
        /\ CE_Raise(w, "CalledProcessError")
        /\ UNCHANGED envs
  /\ UNCHANGED <<fs, osPath, handlers, mainVars, auxVars, call, ce, loc, ncalls>>

\* Lines 136-138: pin pip, setuptools and wheel, with VIRTUAL_ENV set to the
\* environment and its bin directory put before the inherited PATH.
CE_UvPin(w) ==
  /\ pc[w] = "ce_uv_pin"
  /\ \/ /\ tr' = [tr EXCEPT ![w] = Append(@, Run("uv_pin", TRUE, ce[w].path, ce[w].path))]
        /\ envs' = EnvDone(envs, ce[w].path, ce[w].scripts = <<>>)
        /\ pc' = [pc EXCEPT ![w] = IF ce[w].scripts = <<>> THEN "ce_activate" ELSE "ce_uv_cmd"]
        /\ UNCHANGED out
     \/ /\ tr' = [tr EXCEPT ![w] = Append(@, Run("uv_pin", FALSE, ce[w].path, ce[w].path))]
        /\ CE_Raise(w, "CalledProcessError")
        /\ UNCHANGED envs
  /\ UNCHANGED <<fs, osPath, handlers, mainVars, auxVars, call, ce, loc, ncalls>>

\* CE_UvCmd without env=dep_env: the install command inherits the process
\* environment.
CE_UvCmd_ProcessEnv(w) ==
  /\ pc[w] = "ce_uv_cmd"
  /\ LET f == ce[w]
     IN \/ /\ tr' = [tr EXCEPT ![w] = Append(@, Step("env_cmd", TRUE))]
           /\ envs' = EnvDone(envs, f.path, f.idx = Len(f.scripts))
           /\ ce' = [ce EXCEPT ![w].idx = f.idx + 1]
           /\ pc' = [pc EXCEPT ![w] = IF f.idx = Len(f.scripts) THEN "ce_activate" ELSE "ce_uv_cmd"]
           /\ UNCHANGED out
        \/ /\ tr' = [tr EXCEPT ![w] = Append(@, Step("env_cmd", FALSE))]
           /\ CE_Raise(w, "CalledProcessError")
           /\ UNCHANGED <<envs, ce>>
  /\ UNCHANGED <<fs, osPath, handlers, mainVars, auxVars, call, loc, ncalls>>

\* CE_UvCmd without check=True: a command that exits non-zero is passed
\* over and the loop goes on.
CE_UvCmd_Unchecked(w) ==
  /\ pc[w] = "ce_uv_cmd"
  /\ LET f == ce[w]
     IN /\ \E ok \in BOOLEAN : tr' = [tr EXCEPT ![w] = Append(@, Run("env_cmd", ok, f.path, f.path))]
        /\ envs' = EnvDone(envs, f.path, f.idx = Len(f.scripts))
        /\ ce' = [ce EXCEPT ![w].idx = f.idx + 1]
        /\ pc' = [pc EXCEPT ![w] = IF f.idx = Len(f.scripts) THEN "ce_activate" ELSE "ce_uv_cmd"]
        /\ UNCHANGED out
  /\ UNCHANGED <<fs, osPath, handlers, mainVars, auxVars, call, loc, ncalls>>

\* Lines 140-145: one install command of the uv backend, with VIRTUAL_ENV
\* set to the environment and its bin directory put before the inherited PATH.
CE_UvCmd(w) ==
  /\ pc[w] = "ce_uv_cmd"
  /\ LET f == ce[w]
     IN \/ /\ tr' = [tr EXCEPT ![w] = Append(@, Run("env_cmd", TRUE, f.path, f.path))]
           /\ envs' = EnvDone(envs, f.path, f.idx = Len(f.scripts))
           /\ ce' = [ce EXCEPT ![w].idx = f.idx + 1]
           /\ pc' = [pc EXCEPT ![w] = IF f.idx = Len(f.scripts) THEN "ce_activate" ELSE "ce_uv_cmd"]
           /\ UNCHANGED out
        \/ /\ tr' = [tr EXCEPT ![w] = Append(@, Run("env_cmd", FALSE, f.path, f.path))]
           /\ CE_Raise(w, "CalledProcessError")
           /\ UNCHANGED <<envs, ce>>
  /\ UNCHANGED <<fs, osPath, handlers, mainVars, auxVars, call, loc, ncalls>>

\* Lines 152-157: prepend the environment's bin directory to PATH, return
\* env_path; run_instance goes on at line 111.
CE_Activate(w) ==
  /\ pc[w] = "ce_activate"
  /\ osPath' = ce[w].path
  /\ \/ /\ call[w].fn = "create_env"
        /\ Finish(w, ReturnedPath(ce[w].path))
        /\ UNCHANGED loc
     \/ /\ call[w].fn = "run_instance"
        /\ loc' = [loc EXCEPT ![w].env_path = ce[w].path]
        /\ pc' = [pc EXCEPT ![w] = "ri_workdir"]
        /\ UNCHANGED out
  /\ UNCHANGED <<fs, envs, handlers, mainVars, auxVars, call, ce, tr, ncalls>>

create_env(w) ==
  \/ CE_Enter(w)
  \/ CE_CondaCmd(w)
  \/ CE_UvVenv(w)
  \/ CE_UvPin(w)
  \/ CE_UvCmd(w)
  \/ CE_Activate(w)

\* ----------------------------------------------------------- run_instance
GIT_APPLY_CMDS == <<"git apply --verbose", "git apply --verbose --reject", "patch --batch --fuzz=5 -p1 -i">>

\* Captured test output: of a run that ended, and of one cut by the timeout
\* (with the "Timeout error" line appended).
OUT_DONE == "test output"

OUT_TIMEOUT == "test output + Timeout error"

\* get_eval_report (external grading) on a captured output.
get_eval_report(test_output) == "report of " \o test_output

\* What run_instance.log holds after its last failure record.
LOG_EMPTY == ""

LOG_PATCH_FAIL == "EvaluationError: >>>>> Patch Apply Failed"

LOG_TIMEOUT == "EvaluationError: Test timed out"

LOG_ERROR == "Error in evaluating model"

\* log_dir of the worker's call (lines 77-79).
LogDirOf(w) == LogDir(RunId, call[w].model, call[w].inst)

\* close_logger removes handlers while it iterates over the same list, so
\* every second handler is skipped.
close_logger(n) == n \div 2

\* Line 109: create_env(test_spec.env_script_list, test_spec.env_key); the
\* second positional parameter of create_env is env_manager, env_key keeps
\* its default None.
CreateEnvArgs(plan) == [scripts |-> plan.env_script_list, mgr |-> plan.env_key, key |-> NONE, path |-> NoEnv, idx |-> 0]

\* RI_Rewrite without the check of the captured output: a missing
\* eval_out.txt is graded like an empty one.
RI_Rewrite_NoCheck(w) ==
  /\ pc[w] = "ri_enter"
  /\ call[w].rewrite
  /\ LET d == LogDirOf(w)
     IN \/ /\ fs' = [fs EXCEPT ![d][LOG_REPORT] = get_eval_report(fs[d][LOG_TEST_OUTPUT])]
           /\ Finish(w, ReturnedReport(get_eval_report(fs[d][LOG_TEST_OUTPUT])))
        \/ /\ Finish(w, Raised("Exception"))
           /\ UNCHANGED fs
  /\ UNCHANGED <<envs, osPath, handlers, mainVars, auxVars, call, ce, loc, tr, ncalls>>

\* Lines 84-97: rewrite mode.
RI_Rewrite(w) ==
  /\ pc[w] = "ri_enter"
  /\ call[w].rewrite
  /\ LET d == LogDirOf(w)
     IN \/ /\ fs[d][LOG_TEST_OUTPUT] = ABSENT
           /\ Finish(w, Raised("ValueError"))
           /\ UNCHANGED fs
        \/ /\ fs[d][LOG_TEST_OUTPUT] # ABSENT
           /\ fs' = [fs EXCEPT ![d][LOG_REPORT] = get_eval_report(fs[d][LOG_TEST_OUTPUT])]
           /\ Finish(w, ReturnedReport(get_eval_report(fs[d][LOG_TEST_OUTPUT])))
        \/ /\ fs[d][LOG_TEST_OUTPUT] # ABSENT
           /\ Finish(w, Raised("Exception"))
           /\ UNCHANGED fs
  /\ UNCHANGED <<envs, osPath, handlers, mainVars, auxVars, call, ce, loc, tr, ncalls>>

\* RI_CacheHit without the cache check: the call sets up its logger and
\* goes on to build although a report is there.
RI_CacheHit_NoCheck(w) ==
  /\ pc[w] = "ri_enter"
  /\ ~call[w].rewrite
  /\ fs[LogDirOf(w)][LOG_REPORT] # ABSENT
  /\ fs' = [fs EXCEPT ![LogDirOf(w)][LOG_INSTANCE] = LOG_EMPTY]
  /\ handlers' = [handlers EXCEPT ![call[w].inst] = @ + 1]
  /\ ce' = [ce EXCEPT ![w] = CreateEnvArgs(call[w].plan)]
  /\ pc' = [pc EXCEPT ![w] = "ce_enter"]
  /\ UNCHANGED <<envs, osPath, mainVars, auxVars, call, loc, tr, out, ncalls>>

\* Lines 99-101: the result cache.
RI_CacheHit(w) ==
  /\ pc[w] = "ri_enter"
  /\ ~call[w].rewrite
  /\ fs[LogDirOf(w)][LOG_REPORT] # ABSENT
  /\ Finish(w, ReturnedReport(fs[LogDirOf(w)][LOG_REPORT]))
  /\ UNCHANGED <<diskVars, mainVars, auxVars, call, ce, loc, tr, ncalls>>

\* Lines 103-109: log directory, logger (the log file is opened with mode
\* "w"), then the call of create_env.
RI_SetupLogger(w) ==
  /\ pc[w] = "ri_enter"
  /\ ~call[w].rewrite
  /\ fs[LogDirOf(w)][LOG_REPORT] = ABSENT
  /\ fs' = [fs EXCEPT ![LogDirOf(w)][LOG_INSTANCE] = LOG_EMPTY]
  /\ handlers' = [handlers EXCEPT ![call[w].inst] = @ + 1]
  /\ ce' = [ce EXCEPT ![w] = CreateEnvArgs(call[w].plan)]
  /\ pc' = [pc EXCEPT ![w] = "ce_enter"]
  /\ UNCHANGED <<envs, osPath, mainVars, auxVars, call, loc, tr, out, ncalls>>

\* RI_Workdir without the removal: an existing work directory is kept as
\* it is (mkdir with exist_ok only).
RI_Workdir_KeepStale(w) ==
  /\ pc[w] = "ri_workdir"
  /\ LET d == LogDirOf(w)
     IN /\ fs' = [fs EXCEPT ![d]["work"] = IF fs[d]["work"] # ABSENT THEN fs[d]["work"] ELSE "empty",
                            ![d]["repo.sh"] = "install_repo_script",
                            ![d]["eval.sh"] = "eval_script",
                            ![d]["patch.diff"] = IF call[w].patch = P_NULL THEN "" ELSE call[w].patch]
        /\ tr' = tr
  /\ pc' = [pc EXCEPT ![w] = "ri_repo"]
  /\ UNCHANGED <<envs, osPath, handlers, mainVars, auxVars, call, ce, loc, out, ncalls>>

\* Lines 111-126: a fresh work directory, the two scripts and the patch.
RI_Workdir(w) ==
  /\ pc[w] = "ri_workdir"
  /\ LET d == LogDirOf(w)
     IN /\ fs' = [fs EXCEPT ![d]["work"] = "empty",
                            ![d]["repo.sh"] = "install_repo_script",
                            ![d]["eval.sh"] = "eval_script",
                            ![d]["patch.diff"] = IF call[w].patch = P_NULL THEN "" ELSE call[w].patch]
        /\ tr' = [tr EXCEPT ![w] = IF fs[d]["work"] # ABSENT THEN Append(@, Step("rm -rf work", TRUE)) ELSE @]
  /\ pc' = [pc EXCEPT ![w] = "ri_repo"]
  /\ UNCHANGED <<envs, osPath, handlers, mainVars, auxVars, call, ce, loc, out, ncalls>>

\* Lines 196-211: an exception caught inside the try block is logged, the
\* logger is closed and run_instance returns None.
RI_Fail(w, files, record) ==
  /\ fs' = [files EXCEPT ![LogDirOf(w)][LOG_INSTANCE] = record]
  /\ handlers' = [handlers EXCEPT ![call[w].inst] = close_logger(@)]
  /\ Finish(w, ReturnedNone)

\* Lines 130-137: the repo-setup script, check=True, started with the
\* process environment plus VIRTUAL_ENV = env_path. Its install command
\* (python.py 292-303) installs the checkout into the environment it
\* resolves: the one VIRTUAL_ENV names or the one first on PATH, whichever
\* the command goes by.
RI_RepoSetup(w) ==
  /\ pc[w] = "ri_repo"
  /\ LET d == LogDirOf(w)
     IN \/ /\ tr' = [tr EXCEPT ![w] = Append(@, Run("repo.sh", TRUE, loc[w].env_path, osPath))]
           /\ fs' = [fs EXCEPT ![d]["work"] = "testbed"]
           /\ \E target \in {loc[w].env_path, osPath} :
                installed' = installed \cup {<<target, call[w].inst>>}
           /\ loc' = [loc EXCEPT ![w].k = 1, ![w].applied = FALSE]
           /\ pc' = [pc EXCEPT ![w] = "ri_patch"]
           /\ UNCHANGED <<handlers, out>>
        \/ /\ tr' = [tr EXCEPT ![w] = Append(@, Run("repo.sh", FALSE, loc[w].env_path, osPath))]
           /\ RI_Fail(w, [fs EXCEPT ![d]["work"] = "partial"], LOG_ERROR)
           /\ UNCHANGED <<loc, installed>>
  /\ UNCHANGED <<envs, osPath, mainVars, ts, removed, sc, call, ce, ncalls>>

\* RI_TryPatch without the check of applied_patch: after the last command
\* has failed the call goes on to the eval script.
RI_TryPatch_NoRaise(w) ==
  /\ pc[w] = "ri_patch"
  /\ LET d == LogDirOf(w)
         k == loc[w].k
     IN \/ /\ tr' = [tr EXCEPT ![w] = Append(@, Step(GIT_APPLY_CMDS[k], TRUE))]
           /\ fs' = [fs EXCEPT ![d]["work"] = "patched"]
           /\ loc' = [loc EXCEPT ![w].applied = TRUE]
           /\ pc' = [pc EXCEPT ![w] = "ri_eval"]
        \/ /\ k < Len(GIT_APPLY_CMDS)
           /\ tr' = [tr EXCEPT ![w] = Append(@, Step(GIT_APPLY_CMDS[k], FALSE))]
           /\ loc' = [loc EXCEPT ![w].k = k + 1]
           /\ UNCHANGED <<fs, pc>>
        \/ /\ k = Len(GIT_APPLY_CMDS)
           /\ tr' = [tr EXCEPT ![w] = Append(@, Step(GIT_APPLY_CMDS[k], FALSE))]
           /\ pc' = [pc EXCEPT ![w] = "ri_eval"]
           /\ UNCHANGED <<fs, loc>>
  /\ UNCHANGED <<envs, osPath, handlers, out, mainVars, auxVars, call, ce, ncalls>>

\* Lines 143-166: one patch command of GIT_APPLY_CMDS; after the last one
\* has failed, EvaluationError.
RI_TryPatch(w) ==
  /\ pc[w] = "ri_patch"
  /\ LET d == LogDirOf(w)
         k == loc[w].k
     IN \/ /\ tr' = [tr EXCEPT ![w] = Append(@, Step(GIT_APPLY_CMDS[k], TRUE))]
           /\ fs' = [fs EXCEPT ![d]["work"] = "patched"]
           /\ loc' = [loc EXCEPT ![w].applied = TRUE]
           /\ pc' = [pc EXCEPT ![w] = "ri_eval"]
           /\ UNCHANGED <<handlers, out>>
        \/ /\ k < Len(GIT_APPLY_CMDS)
           /\ tr' = [tr EXCEPT ![w] = Append(@, Step(GIT_APPLY_CMDS[k], FALSE))]
           /\ loc' = [loc EXCEPT ![w].k = k + 1]
           /\ UNCHANGED <<fs, handlers, pc, out>>
        \/ /\ k = Len(GIT_APPLY_CMDS)
           /\ tr' = [tr EXCEPT ![w] = Append(@, Step(GIT_APPLY_CMDS[k], FALSE))]
           /\ RI_Fail(w, fs, LOG_PATCH_FAIL)
           /\ UNCHANGED loc
  /\ UNCHANGED <<envs, osPath, mainVars, auxVars, call, ce, ncalls>>

\* RI_Eval that treats TimeoutExpired like any other exception: no marker
\* is appended to the captured output and the generic error is logged.
RI_Eval_TimeoutGeneric(w) ==
  /\ pc[w] = "ri_eval"
  /\ LET d == LogDirOf(w)
     IN \/ /\ tr' = [tr EXCEPT ![w] = Append(@, Step("eval.sh", TRUE))]
           /\ fs' = [fs EXCEPT ![d][LOG_TEST_OUTPUT] = OUT_DONE]
           /\ installed' = installed \cup {<<loc[w].env_path, call[w].inst>>}
           /\ pc' = [pc EXCEPT ![w] = "ri_report"]
           /\ UNCHANGED <<handlers, out>>
        \/ /\ tr' = [tr EXCEPT ![w] = Append(@, Step("eval.sh", FALSE))]
           /\ RI_Fail(w, [fs EXCEPT ![d][LOG_TEST_OUTPUT] = OUT_DONE], LOG_ERROR)
           /\ UNCHANGED installed
  /\ UNCHANGED <<envs, osPath, mainVars, ts, removed, sc, call, ce, loc, ncalls>>

\* RI_Eval that takes a timeout for an ordinary end of the tests: the marker
\* is appended and the call goes on to grade the output.
RI_Eval_TimeoutGraded(w) ==
  /\ pc[w] = "ri_eval"
  /\ LET d == LogDirOf(w)
     IN \/ /\ tr' = [tr EXCEPT ![w] = Append(@, Step("eval.sh", TRUE))]
           /\ fs' = [fs EXCEPT ![d][LOG_TEST_OUTPUT] = OUT_DONE]
           /\ installed' = installed \cup {<<loc[w].env_path, call[w].inst>>}
           /\ pc' = [pc EXCEPT ![w] = "ri_report"]
           /\ UNCHANGED <<handlers, out>>
        \/ /\ tr' = [tr EXCEPT ![w] = Append(@, Step("eval.sh", FALSE))]
           /\ fs' = [fs EXCEPT ![d][LOG_TEST_OUTPUT] = OUT_TIMEOUT]
           /\ pc' = [pc EXCEPT ![w] = "ri_report"]
           /\ UNCHANGED <<handlers, out, installed>>
  /\ UNCHANGED <<envs, osPath, mainVars, ts, removed, sc, call, ce, loc, ncalls>>

\* Lines 169-184: the eval script under the timeout, output to eval_out.txt.
\* The script activates env_path and repeats the install command
\* (python.py 467-469) before it runs the tests.
RI_Eval(w) ==
  /\ pc[w] = "ri_eval"
  /\ LET d == LogDirOf(w)
     IN \/ /\ tr' = [tr EXCEPT ![w] = Append(@, Step("eval.sh", TRUE))]
           /\ fs' = [fs EXCEPT ![d][LOG_TEST_OUTPUT] = OUT_DONE]
           /\ installed' = installed \cup {<<loc[w].env_path, call[w].inst>>}
           /\ pc' = [pc EXCEPT ![w] = "ri_report"]
           /\ UNCHANGED <<handlers, out>>
        \/ /\ tr' = [tr EXCEPT ![w] = Append(@, Step("eval.sh", FALSE))]
           /\ RI_Fail(w, [fs EXCEPT ![d][LOG_TEST_OUTPUT] = OUT_TIMEOUT], LOG_TIMEOUT)
           /\ UNCHANGED installed
  /\ UNCHANGED <<envs, osPath, mainVars, ts, removed, sc, call, ce, loc, ncalls>>

\* Lines 187-195: grade the captured output and persist the report.
RI_Report(w) ==
  /\ pc[w] = "ri_report"
  /\ LET d == LogDirOf(w)
         report == get_eval_report(fs[d][LOG_TEST_OUTPUT])
     IN \/ /\ fs' = [fs EXCEPT ![d][LOG_REPORT] = report]
           /\ handlers' = [handlers EXCEPT ![call[w].inst] = close_logger(@)]
           /\ Finish(w, ReturnedReport(report))
        \/ RI_Fail(w, fs, LOG_ERROR)
  /\ UNCHANGED <<envs, osPath, mainVars, auxVars, call, ce, loc, tr, ncalls>>

run_instance(w) ==
  \/ RI_Rewrite(w)
  \/ RI_CacheHit(w)
  \/ RI_SetupLogger(w)
  \/ RI_Workdir(w)
  \/ RI_RepoSetup(w)
  \/ RI_TryPatch(w)
  \/ RI_Eval(w)
  \/ RI_Report(w)

\* --------------------------------------------------------- make_test_spec
\* A task instance (external data): repository, version, the dependency
\* manifest fetched for (repository, commit), base commit, test patch and
\* the expected tests.
Instance(iid, repo, version, manifest, base_commit, test_patch, fail_to_pass) ==
  [instance_id |-> iid, repo |-> repo, version |-> version, manifest |-> manifest,
   base_commit |-> base_commit, test_patch |-> test_patch, FAIL_TO_PASS |-> fail_to_pass]

\* The instances of the dataset.  i1 and i3 are of different repositories
\* and share one manifest; i4 is of a version that has no entry in
\* MAP_REPO_VERSION_TO_SPECS.
InstanceOf(iid) ==
  CASE iid = "i1" -> Instance(iid, "org/a", "1.0", "numpy==1.21", "c1", "t1", "f1")
    [] iid = "i2" -> Instance(iid, "org/b", "2.0", "name: env; numpy", "c2", "t2", "f2")
    [] iid = "i3" -> Instance(iid, "org/c", "1.0", "numpy==1.21", "c3", "t3", "f3")
    [] OTHER -> Instance(iid, "org/a", "0.9", "numpy==1.21", "c4", "t4", "f4")

\* (repo, version) is a key of MAP_REPO_VERSION_TO_SPECS (external table).
HasSpecs(repo, version) == <<repo, version>> \in {<<"org/a", "1.0">>, <<"org/b", "2.0">>, <<"org/c", "1.0">>}

\* MAP_REPO_VERSION_TO_SPECS[repo][version].
SpecsOf(repo, version) ==
  IF repo = "org/b"
  THEN [packages |-> "environment.yml", pip_packages |-> <<"pytest">>]
  ELSE [packages |-> "requirements.txt", pip_packages |-> <<>>]

\* pkgs_type.replace(' ', '\n') on the package lists of the specs.
BlanksToNewlines(text) == IF text = "numpy scipy" THEN "numpy\nscipy" ELSE text

\* specs.get("packages", "requirements.txt") and the requirements text of
\* the uv branch: the fetched manifest, or the explicit package list.
PkgsType(specs) == IF specs.packages = NO_KEY THEN "requirements.txt" ELSE specs.packages

ReqsText(instance, specs) ==
  IF PkgsType(specs) = "requirements.txt" THEN instance.manifest ELSE BlanksToNewlines(PkgsType(specs))

\* make_env_script_list_py that takes the conda branch for everything but a
\* requirements file.
make_env_script_list_py_CondaUnlessReqs(instance, specs, env_name) ==
  LET pip == IF specs.pip_packages # <<>> THEN <<Cmd("uv pip install pip_packages", "")>> ELSE <<>>
  IN IF PkgsType(specs) # "requirements.txt"
     THEN [env_manager |-> "conda",
           cmds |-> << Cmd("conda config --set ssl_verify false", ""),
                       Cmd("cat > environment.yml: " \o instance.manifest, env_name),
                       Cmd("conda env create", env_name),
                       Cmd("rm environment.yml", "") >> \o pip]
     ELSE [env_manager |-> "uv",
           cmds |-> << Cmd("apt-get update", ""),
                       Cmd("apt-get install -y", ""),
                       Cmd("ldconfig", "") >>
                    \o (IF ReqsText(instance, specs) # ""
                        THEN << Cmd("cat > requirements.txt: " \o ReqsText(instance, specs), ""),
                                Cmd("uv pip install -r requirements.txt", ""),
                                Cmd("rm requirements.txt", "") >>
                        ELSE <<>>)
                    \o pip]

\* python.py 341-409: the env-setup commands and the manager kind.
make_env_script_list_py(instance, specs, env_name) ==
  LET pip == IF specs.pip_packages # <<>> THEN <<Cmd("uv pip install pip_packages", "")>> ELSE <<>>
  IN IF PkgsType(specs) = "environment.yml"
     THEN [env_manager |-> "conda",
           cmds |-> << Cmd("conda config --set ssl_verify false", ""),
                       Cmd("cat > environment.yml: " \o instance.manifest, env_name),
                       Cmd("conda env create", env_name),
                       Cmd("rm environment.yml", "") >> \o pip]
     ELSE [env_manager |-> "uv",
           cmds |-> << Cmd("apt-get update", ""),
                       Cmd("apt-get install -y", ""),
                       Cmd("ldconfig", "") >>
                    \o (IF ReqsText(instance, specs) # ""
                        THEN << Cmd("cat > requirements.txt: " \o ReqsText(instance, specs), ""),
                                Cmd("uv pip install -r requirements.txt", ""),
                                Cmd("rm requirements.txt", "") >>
                        ELSE <<>>)
                    \o pip]

\* MAP_REPO_TO_EXT[repo] (external table).
MAP_REPO_TO_EXT(repo) == IF repo = "org/js" THEN "js" ELSE "py"

\* make_env_script_list_common (swebench.harness.test_spec.utils): the
\* system packages of the specs, none in the specs drawn here.
make_env_script_list_common(instance, specs, env_name) == <<>>

\* create_scripts.py 37-54.
make_env_script_list(instance, specs, env_name) ==
  IF MAP_REPO_TO_EXT(instance.repo) = "py"
  THEN make_env_script_list_py(instance, specs, env_name)
  ELSE [env_manager |-> "uv", cmds |-> make_env_script_list_common(instance, specs, env_name)]

\* s.replace(ENV_NAME_PLACEHOLDER, env_key) on every command.
ReplacePlaceholder(scripts, env_key) ==
  [n \in 1..Len(scripts) |->
     IF scripts[n].name = ENV_NAME_PLACEHOLDER THEN [scripts[n] EXCEPT !.name = env_key] ELSE scripts[n]]

\* What stands for the plan when the lookup of line 99 raises KeyError.
KeyErrorPlan == [env_key |-> "", env_manager |-> "KeyError", env_script_list |-> <<>>]

\* make_test_spec that takes the digest of the instance id together with
\* the command list.
make_test_spec_KeyOfInstance(instance) ==
  LET specs == SpecsOf(instance.repo, instance.version)
      made == make_env_script_list_py(instance, specs, ENV_NAME_PLACEHOLDER)
      env_key == Sha22("str", <<instance.instance_id>> \o made.cmds)
  IN IF ~HasSpecs(instance.repo, instance.version)
     THEN KeyErrorPlan
     ELSE [env_key |-> env_key,
           env_manager |-> made.env_manager,
           env_script_list |-> ReplacePlaceholder(made.cmds, env_key)]

\* make_test_spec that substitutes the key in the create command only: the
\* other commands keep the placeholder.
make_test_spec_CreateOnly(instance) ==
  LET specs == SpecsOf(instance.repo, instance.version)
      made == make_env_script_list_py(instance, specs, ENV_NAME_PLACEHOLDER)
      env_key == Sha22("str", made.cmds)
  IN IF ~HasSpecs(instance.repo, instance.version)
     THEN KeyErrorPlan
     ELSE [env_key |-> env_key,
           env_manager |-> made.env_manager,
           env_script_list |->
             [n \in 1..Len(made.cmds) |->
                IF made.cmds[n].op = "conda env create"
                THEN [made.cmds[n] EXCEPT !.name = env_key] ELSE made.cmds[n]]]

\* test_spec.py 69-142.
make_test_spec(instance) ==
  LET specs == SpecsOf(instance.repo, instance.version)
      made == make_env_script_list_py(instance, specs, ENV_NAME_PLACEHOLDER)
      env_key == Sha22("str", made.cmds)
  IN IF ~HasSpecs(instance.repo, instance.version)
     THEN KeyErrorPlan
     ELSE [env_key |-> env_key,
           env_manager |-> made.env_manager,
           env_script_list |-> ReplacePlaceholder(made.cmds, env_key)]

\* ------------------------------------------------------- script builders
\* The checkout directory make_test_spec passes (test_spec.py line 88).
REPO_DIRECTORY == "testbed"

\* MAP_REPO_TO_INSTALL (external table): the repositories that have an
\* install command of their own, and that command.
ReposWithInstall == {"org/b"}

MAP_REPO_TO_INSTALL(repo) == "install prerequisites of " \o repo

GIT_COMMIT_BASELINE == "git commit --allow-empty -am SWE-bench"

\* make_repo_script_list_py with the baseline commit made right after the
\* remote is removed, before the bootstrap commands.
make_repo_script_list_py_CommitEarly(specs, repo, repo_directory, base_commit, env_name) ==
  << "git clone -o origin https://github.com/" \o repo \o " " \o repo_directory,
     "chmod -R 777 " \o repo_directory,
     "cd " \o repo_directory,
     "git reset --hard " \o base_commit,
     "git remote remove origin",
     "git config --global user.email setup@swebench.config",
     "git config --global user.name SWE-bench",
     GIT_COMMIT_BASELINE >>
  \o (IF repo \in ReposWithInstall THEN <<MAP_REPO_TO_INSTALL(repo)>> ELSE <<>>)
  \o specs.pre_install
  \o (IF specs.install # NO_KEY THEN <<specs.install>> ELSE <<>>)

\* python.py 271-320.
make_repo_script_list_py(specs, repo, repo_directory, base_commit, env_name) ==
  << "git clone -o origin https://github.com/" \o repo \o " " \o repo_directory,
     "chmod -R 777 " \o repo_directory,
     "cd " \o repo_directory,
     "git reset --hard " \o base_commit,
     "git remote remove origin" >>
  \o (IF repo \in ReposWithInstall THEN <<MAP_REPO_TO_INSTALL(repo)>> ELSE <<>>)
  \o specs.pre_install
  \o (IF specs.install # NO_KEY THEN <<specs.install>> ELSE <<>>)
  \o << "git config --global user.email setup@swebench.config",
        "git config --global user.name SWE-bench",
        GIT_COMMIT_BASELINE >>

\* The sentinels (swebench.harness.constants) as the commands that emit them.
START_TEST_OUTPUT == ": '>>>>> Start Test Output'"

END_TEST_OUTPUT == ": '>>>>> End Test Output'"

HEREDOC_DELIMITER == "EOF_114329324912"

\* get_modified_files(test_patch), joined by blanks, and the test command:
\* the test_cmd of the (repository, version) entry joined with
\* get_test_directives(instance) (external helpers and table).
ModifiedFiles(test_patch) == "files of " \o test_patch

TestCommand(instance) ==
  (IF instance.repo = "org/b" THEN "tox --current-env -epy39 -v --" ELSE "pytest -rA")
    \o " directives of " \o instance.test_patch

\* make_eval_script_list_py that leaves the patched test files in place: no
\* reset after the end sentinel.
make_eval_script_list_py_NoFinalReset(instance, specs, env_name, repo_directory, base_commit, test_patch) ==
  LET reset_tests_command == "git checkout " \o base_commit \o " " \o ModifiedFiles(test_patch)
      apply_test_patch_command ==
        "git apply -v - <<'" \o HEREDOC_DELIMITER \o "'\n" \o test_patch \o "\n" \o HEREDOC_DELIMITER
  IN <<"cd " \o repo_directory>>
     \o specs.eval_commands
     \o << "git config --global --add safe.directory " \o repo_directory,
           "cd " \o repo_directory,
           "git status",
           "git show",
           "git -c core.fileMode=false diff " \o base_commit >>
     \o (IF specs.install # NO_KEY THEN <<specs.install>> ELSE <<>>)
     \o << reset_tests_command,
           apply_test_patch_command,
           START_TEST_OUTPUT,
           TestCommand(instance),
           END_TEST_OUTPUT >>

\* python.py 421-488.
make_eval_script_list_py(instance, specs, env_name, repo_directory, base_commit, test_patch) ==
  LET reset_tests_command == "git checkout " \o base_commit \o " " \o ModifiedFiles(test_patch)
      apply_test_patch_command ==
        "git apply -v - <<'" \o HEREDOC_DELIMITER \o "'\n" \o test_patch \o "\n" \o HEREDOC_DELIMITER
  IN <<"cd " \o repo_directory>>
     \o specs.eval_commands
     \o << "git config --global --add safe.directory " \o repo_directory,
           "cd " \o repo_directory,
           "git status",
           "git show",
           "git -c core.fileMode=false diff " \o base_commit >>
     \o (IF specs.install # NO_KEY THEN <<specs.install>> ELSE <<>>)
     \o << reset_tests_command,
           apply_test_patch_command,
           START_TEST_OUTPUT,
           TestCommand(instance),
           END_TEST_OUTPUT,
           reset_tests_command >>

\* ------------------------------------------------- get_dataset_from_preds
Pred(iid, patch) == [instance_id |-> iid, model_name_or_path |-> ModelName, model_patch |-> patch]

SeqToSet(q) == {q[n] : n \in 1..Len(q)}

\* get_dataset_from_preds without the empty-patch filter of lines 308-314.
get_dataset_from_preds_KeepEmpty(dataset, instance_ids, predictions, run_id, rewrite_reports, exclude_completed, files) ==
  LET prediction_ids == DOMAIN predictions
      Requested(i) == i \in SeqToSet(instance_ids)
      ds1 == IF instance_ids # <<>> THEN SelectSeq(dataset, Requested) ELSE dataset
      FileOf(i, name) == files[LogDir(run_id, predictions[i].model_name_or_path, predictions[i].instance_id)][name]
      test_output_ids == {i \in SeqToSet(ds1) : i \in prediction_ids /\ FileOf(i, LOG_TEST_OUTPUT) # ABSENT}
      HasOutput(i) == i \in prediction_ids /\ i \in test_output_ids
      completed_ids == {i \in SeqToSet(ds1) : i \in prediction_ids /\ FileOf(i, LOG_REPORT) # ABSENT}
      NotCompleted(i) == i \notin completed_ids
      ds2 == IF completed_ids # {} /\ exclude_completed THEN SelectSeq(ds1, NotCompleted) ELSE ds1
      Predicted(i) == i \in prediction_ids
  IN IF prediction_ids \ SeqToSet(dataset) # {}
     THEN [raised |-> TRUE, dataset |-> <<>>]
     ELSE IF rewrite_reports
     THEN [raised |-> FALSE, dataset |-> SelectSeq(ds1, HasOutput)]
     ELSE [raised |-> FALSE, dataset |-> SelectSeq(ds2, Predicted)]

\* get_dataset_from_preds without the check of lines 258-263.
get_dataset_from_preds_NoIdCheck(dataset, instance_ids, predictions, run_id, rewrite_reports, exclude_completed, files) ==
  LET prediction_ids == DOMAIN predictions
      Requested(i) == i \in SeqToSet(instance_ids)
      ds1 == IF instance_ids # <<>> THEN SelectSeq(dataset, Requested) ELSE dataset
      FileOf(i, name) == files[LogDir(run_id, predictions[i].model_name_or_path, predictions[i].instance_id)][name]
      test_output_ids == {i \in SeqToSet(ds1) : i \in prediction_ids /\ FileOf(i, LOG_TEST_OUTPUT) # ABSENT}
      HasOutput(i) == i \in prediction_ids /\ i \in test_output_ids
      completed_ids == {i \in SeqToSet(ds1) : i \in prediction_ids /\ FileOf(i, LOG_REPORT) # ABSENT}
      NotCompleted(i) == i \notin completed_ids
      ds2 == IF completed_ids # {} /\ exclude_completed THEN SelectSeq(ds1, NotCompleted) ELSE ds1
      empty_patch_ids == {i \in prediction_ids : predictions[i].model_patch = P_EMPTY \/ predictions[i].model_patch = P_NULL}
      Runnable(i) == i \in prediction_ids /\ i \notin empty_patch_ids
  IN IF rewrite_reports
     THEN [raised |-> FALSE, dataset |-> SelectSeq(ds1, HasOutput)]
     ELSE [raised |-> FALSE, dataset |-> SelectSeq(ds2, Runnable)]

\* get_dataset_from_preds that looks for the files under the model name as
\* given, without replacing "/".
get_dataset_from_preds_RawModel(dataset, instance_ids, predictions, run_id, rewrite_reports, exclude_completed, files) ==
  LET prediction_ids == DOMAIN predictions
      Requested(i) == i \in SeqToSet(instance_ids)
      ds1 == IF instance_ids # <<>> THEN SelectSeq(dataset, Requested) ELSE dataset
      RawDir(i) == <<run_id, predictions[i].model_name_or_path, predictions[i].instance_id>>
      FileOf(i, name) == IF RawDir(i) \in DOMAIN files THEN files[RawDir(i)][name] ELSE ABSENT
      test_output_ids == {i \in SeqToSet(ds1) : i \in prediction_ids /\ FileOf(i, LOG_TEST_OUTPUT) # ABSENT}
      HasOutput(i) == i \in prediction_ids /\ i \in test_output_ids
      completed_ids == {i \in SeqToSet(ds1) : i \in prediction_ids /\ FileOf(i, LOG_REPORT) # ABSENT}
      NotCompleted(i) == i \notin completed_ids
      ds2 == IF completed_ids # {} /\ exclude_completed THEN SelectSeq(ds1, NotCompleted) ELSE ds1
      empty_patch_ids == {i \in prediction_ids : predictions[i].model_patch = P_EMPTY \/ predictions[i].model_patch = P_NULL}
      Runnable(i) == i \in prediction_ids /\ i \notin empty_patch_ids
  IN IF prediction_ids \ SeqToSet(dataset) # {}
     THEN [raised |-> TRUE, dataset |-> <<>>]
     ELSE IF rewrite_reports
     THEN [raised |-> FALSE, dataset |-> SelectSeq(ds1, HasOutput)]
     ELSE [raised |-> FALSE, dataset |-> SelectSeq(ds2, Runnable)]

\* get_dataset_from_preds whose last filter (lines 310-314) drops the
\* instances with an empty patch and keeps those without a prediction.
get_dataset_from_preds_NoKeyFilter(dataset, instance_ids, predictions, run_id, rewrite_reports, exclude_completed, files) ==
  LET prediction_ids == DOMAIN predictions
      Requested(i) == i \in SeqToSet(instance_ids)
      ds1 == IF instance_ids # <<>> THEN SelectSeq(dataset, Requested) ELSE dataset
      FileOf(i, name) == files[LogDir(run_id, predictions[i].model_name_or_path, predictions[i].instance_id)][name]
      test_output_ids == {i \in SeqToSet(ds1) : i \in prediction_ids /\ FileOf(i, LOG_TEST_OUTPUT) # ABSENT}
      HasOutput(i) == i \in prediction_ids /\ i \in test_output_ids
      completed_ids == {i \in SeqToSet(ds1) : i \in prediction_ids /\ FileOf(i, LOG_REPORT) # ABSENT}
      NotCompleted(i) == i \notin completed_ids
      ds2 == IF completed_ids # {} /\ exclude_completed THEN SelectSeq(ds1, NotCompleted) ELSE ds1
      empty_patch_ids == {i \in prediction_ids : predictions[i].model_patch = P_EMPTY \/ predictions[i].model_patch = P_NULL}
      Runnable(i) == i \notin empty_patch_ids
  IN IF prediction_ids \ SeqToSet(dataset) # {}
     THEN [raised |-> TRUE, dataset |-> <<>>]
     ELSE IF rewrite_reports
     THEN [raised |-> FALSE, dataset |-> SelectSeq(ds1, HasOutput)]
     ELSE [raised |-> FALSE, dataset |-> SelectSeq(ds2, Runnable)]

\* run_evaluation.py 242-315.  files is the log directory tree as the call
\* finds it.  The result is the work set, or raised when ValueError leaves.
get_dataset_from_preds(dataset, instance_ids, predictions, run_id, rewrite_reports, exclude_completed, files) ==
  LET prediction_ids == DOMAIN predictions
      Requested(i) == i \in SeqToSet(instance_ids)
      ds1 == IF instance_ids # <<>> THEN SelectSeq(dataset, Requested) ELSE dataset
      FileOf(i, name) == files[LogDir(run_id, predictions[i].model_name_or_path, predictions[i].instance_id)][name]
      test_output_ids == {i \in SeqToSet(ds1) : i \in prediction_ids /\ FileOf(i, LOG_TEST_OUTPUT) # ABSENT}
      HasOutput(i) == i \in prediction_ids /\ i \in test_output_ids
      completed_ids == {i \in SeqToSet(ds1) : i \in prediction_ids /\ FileOf(i, LOG_REPORT) # ABSENT}
      NotCompleted(i) == i \notin completed_ids
      ds2 == IF completed_ids # {} /\ exclude_completed THEN SelectSeq(ds1, NotCompleted) ELSE ds1
      empty_patch_ids == {i \in prediction_ids : predictions[i].model_patch = P_EMPTY \/ predictions[i].model_patch = P_NULL}
      Runnable(i) == i \in prediction_ids /\ i \notin empty_patch_ids
  IN IF prediction_ids \ SeqToSet(dataset) # {}
     THEN [raised |-> TRUE, dataset |-> <<>>]
     ELSE IF rewrite_reports
     THEN [raised |-> FALSE, dataset |-> SelectSeq(ds1, HasOutput)]
     ELSE [raised |-> FALSE, dataset |-> SelectSeq(ds2, Runnable)]

\* ------------------------------------------------------ main and the pool
Payload(iid, pred, rewrite) ==
  [fn |-> "run_instance", origin |-> "main", inst |-> iid, model |-> pred.model_name_or_path,
   patch |-> pred.model_patch, rewrite |-> rewrite, plan |-> make_test_spec(InstanceOf(iid))]

\* run_instances, lines 224-235: one payload per instance of the work set.
Payloads(dataset, predictions, rewrite) ==
  [n \in 1..Len(dataset) |-> Payload(dataset[n], predictions[dataset[n]], rewrite)]

\* The predictions files main may be given: none, single instances, the two
\* instances that share a manifest, empty and null patches, an id that is
\* not in the dataset, an instance without a version spec.
PredictionMaps ==
  { [i \in {} |-> P_DIFF],
    [i \in {"i1"} |-> P_DIFF],
    [i \in {"i2"} |-> P_DIFF],
    [i \in {"i1", "i3"} |-> P_DIFF],
    [i \in {"i1", "i2", "i3"} |-> P_DIFF],
    [i \in {"i1", "i2"} |-> IF i = "i1" THEN P_EMPTY ELSE P_DIFF],
    [i \in {"i1", "i2"} |-> IF i = "i1" THEN P_NULL ELSE P_EMPTY],
    [i \in {"i1", StrayId} |-> P_DIFF],
    [i \in {"i1", "i4"} |-> P_DIFF] }

PredictionsOf(m) == [i \in DOMAIN m |-> Pred(i, m[i])]

\* The --instance_ids lists main may be given (none is the empty list).
IdLists == {<<>>, <<"i1">>, <<"i2">>, <<"i2", "i1">>}

AllIdle == \A w \in Workers : pc[w] = "idle"

HasPlan(iid) == make_test_spec(InstanceOf(iid)) # KeyErrorPlan

\* run_instances that leaves out the instances whose plan cannot be built
\* and dispatches the others.
run_instances_SkipFailed(predictions, instances, rewrite) ==
  [raised |-> FALSE, payloads |-> Payloads(SelectSeq(instances, HasPlan), predictions, rewrite)]

\* run_instances, lines 224-237: every plan is built, by
\* list(map(make_test_spec, instances)), before run_threadpool is called; a
\* KeyError of make_test_spec leaves run_instances with nothing dispatched.
run_instances(predictions, instances, rewrite) ==
  IF \E n \in 1..Len(instances) : ~HasPlan(instances[n])
  THEN [raised |-> TRUE, payloads |-> <<>>]
  ELSE [raised |-> FALSE, payloads |-> Payloads(instances, predictions, rewrite)]

MainStep(o, p, q) == [mainOut |-> o, mainpc |-> p, queue |-> q]

\* MainOutcome that takes an empty work set for an error.
MainOutcome_EmptyIsError(r, predictions, rewrite) ==
  IF r.raised \/ r.dataset = <<>>
  THEN MainStep("ValueError", "idle", <<>>)
  ELSE LET ri == run_instances(predictions, r.dataset, rewrite)
       IN IF ri.raised
          THEN MainStep("KeyError", "idle", <<>>)
          ELSE MainStep("running", "pool", ri.payloads)

\* main, lines 346-364, from the result r of get_dataset_from_preds: the
\* ValueError leaves main; an empty work set goes straight to
\* make_run_report; otherwise run_instances, whose KeyError leaves main.
MainOutcome(r, predictions, rewrite) ==
  IF r.raised
  THEN MainStep("ValueError", "idle", <<>>)
  ELSE IF r.dataset = <<>>
  THEN MainStep("run_report", "idle", <<>>)
  ELSE LET ri == run_instances(predictions, r.dataset, rewrite)
       IN IF ri.raised
          THEN MainStep("KeyError", "idle", <<>>)
          ELSE MainStep("running", "pool", ri.payloads)

\* main, lines 343-362: load the predictions, compute the work set, and
\* either stop or hand the payloads to run_threadpool.
Main_Start ==
  /\ mainpc = "idle"
  /\ AllIdle
  /\ ncalls < MaxCalls
  /\ \E m \in PredictionMaps, ids \in IdLists, rewrite \in BOOLEAN :
       LET predictions == PredictionsOf(m)
           r == get_dataset_from_preds(Dataset, ids, predictions, RunId, rewrite, TRUE, fs)
           o == MainOutcome(r, predictions, rewrite)
       IN /\ gd' = [NoGd EXCEPT !.called = TRUE, !.instance_ids = ids, !.predictions = predictions,
                                !.rewrite_reports = rewrite, !.raised = r.raised, !.dataset = r.dataset]
          /\ mainOut' = o.mainOut
          /\ mainpc' = o.mainpc
          /\ queue' = o.queue
  /\ ncalls' = ncalls + 1
  /\ UNCHANGED <<diskVars, auxVars, pc, call, ce, loc, tr, out>>

\* A call of run_instance starts on worker w.
StartCall(w, c) ==
  /\ pc[w] = "idle"
  /\ call' = [call EXCEPT ![w] = c]
  /\ pc' = [pc EXCEPT ![w] = "ri_enter"]
  /\ UNCHANGED <<ce, loc, tr, out>>

\* The caller (run_threadpool's future, or the direct caller) has taken the
\* call's outcome; the worker's frame is gone.
Collect(w) ==
  /\ pc[w] = "done"
  /\ pc' = [pc EXCEPT ![w] = "idle"]
  /\ call' = [call EXCEPT ![w] = NoCall]
  /\ ce' = [ce EXCEPT ![w] = NoFrame]
  /\ loc' = [loc EXCEPT ![w] = NoLocals]
  /\ tr' = [tr EXCEPT ![w] = <<>>]
  /\ out' = [out EXCEPT ![w] = NoOut]
  /\ UNCHANGED <<diskVars, mainVars, auxVars, ncalls>>

\* run_threadpool: a free worker takes the next payload.  An exception that
\* leaves run_instance ends that payload only.
Pool_Start(w) ==
  /\ mainpc = "pool"
  /\ queue # <<>>
  /\ StartCall(w, Head(queue))
  /\ queue' = Tail(queue)
  /\ UNCHANGED <<diskVars, auxVars, mainpc, mainOut, gd, ncalls>>

\* Main_Finish that does not wait for the calls that are still running.
Main_Finish_Early ==
  /\ mainpc = "pool"
  /\ queue = <<>>
  /\ mainpc' = "idle"
  /\ mainOut' = "run_report"
  /\ UNCHANGED <<diskVars, auxVars, pc, call, ce, loc, tr, out, queue, gd, ncalls>>

\* main, line 364: every payload has ended; make_run_report.
Main_Finish ==
  /\ mainpc = "pool"
  /\ queue = <<>>
  /\ AllIdle
  /\ mainpc' = "idle"
  /\ mainOut' = "run_report"
  /\ UNCHANGED <<diskVars, auxVars, pc, call, ce, loc, tr, out, queue, gd, ncalls>>

\* --------------------------------------------------------- direct callers
\* TestSpec is a plain dataclass and make_test_spec hands a ready TestSpec
\* through unchanged, so a caller of run_instance chooses the plan's fields.
UvScripts == <<Cmd("uv pip install", "")>>

CondaScripts == <<Cmd("conda env create", "env"), Cmd("uv pip install", "")>>

\* A command list whose create command names a directory of its own with
\* --prefix, next to a -n flag.
OwnPrefix == EnvPath("/opt/envs", "mine")

CondaPrefixScripts == <<[Cmd("conda create", "env") EXCEPT !.prefix = OwnPrefix]>>

\* Hand-built plans whose env_key is a manager's name.
HandPlans ==
  { [env_key |-> "uv", env_manager |-> "conda", env_script_list |-> UvScripts],
    [env_key |-> "conda", env_manager |-> "uv", env_script_list |-> CondaScripts] }

\* The plans a direct caller passes for instance i: the plan make_test_spec
\* builds, and the hand-built ones.
ApiPlans(i) ==
  (IF HasPlan(i) THEN {make_test_spec(InstanceOf(i))} ELSE {}) \cup HandPlans

\* One caller thread: it calls run_instance when nothing else runs.
Call_run_instance(w) ==
  /\ mainpc = "idle"
  /\ AllIdle
  /\ ncalls < MaxCalls
  /\ \E i \in Instances, patch \in {P_DIFF, P_EMPTY}, rewrite \in BOOLEAN :
     \E plan \in ApiPlans(i) :
       StartCall(w, [fn |-> "run_instance", origin |-> "api", inst |-> i, model |-> ModelName,
                     patch |-> patch, rewrite |-> rewrite, plan |-> plan])
  /\ ncalls' = ncalls + 1
  /\ UNCHANGED <<diskVars, mainVars, auxVars>>

\* create_env called directly, by callers that may run concurrently.  An
\* explicit key is the digest of the command list, as in a plan.
Call_create_env(w) ==
  /\ pc[w] = "idle"
  /\ ncalls < MaxCalls
  /\ \E scripts \in {UvScripts, CondaScripts, CondaPrefixScripts}, mgr \in {"uv", "conda", "pip"} :
     \E key \in {NONE, Sha22("str", scripts)} :
       /\ call' = [call EXCEPT ![w] = [NoCall EXCEPT !.fn = "create_env", !.origin = "api"]]
       /\ ce' = [ce EXCEPT ![w] = [scripts |-> scripts, mgr |-> mgr, key |-> key, path |-> NoEnv, idx |-> 0]]
       /\ pc' = [pc EXCEPT ![w] = "ce_enter"]
  /\ ncalls' = ncalls + 1
  /\ UNCHANGED <<diskVars, mainVars, auxVars, loc, tr, out>>

\* The inputs of one call of get_dataset_from_preds: the arguments and the
\* log directory tree it finds.
DirStates ==
  { EmptyDir,
    [EmptyDir EXCEPT ![LOG_TEST_OUTPUT] = OUT_TIMEOUT],
    [EmptyDir EXCEPT ![LOG_TEST_OUTPUT] = OUT_DONE, ![LOG_REPORT] = get_eval_report(OUT_DONE)] }

WidePredictionMaps ==
  UNION {[D -> Patches] : D \in SUBSET (WideInstances \cup {StrayId})}

WideIdLists == {<<>>, <<"i1">>, <<"i3", "i1">>, <<"i3", "i2", "i1">>, <<"i2", "ix">>}

InitDataset ==
  /\ fs \in [LogDirs -> DirStates]
  /\ envs = [p \in {} |-> ""]
  /\ osPath = NoEnv
  /\ handlers = [i \in Instances |-> 0]
  /\ pc = [w \in Workers |-> "idle"]
  /\ call = [w \in Workers |-> NoCall]
  /\ ce = [w \in Workers |-> NoFrame]
  /\ loc = [w \in Workers |-> NoLocals]
  /\ tr = [w \in Workers |-> <<>>]
  /\ out = [w \in Workers |-> NoOut]
  /\ mainpc = "idle"
  /\ queue = <<>>
  /\ mainOut = "none"
  /\ \E m \in WidePredictionMaps, ids \in WideIdLists, rewrite \in BOOLEAN, exclude \in BOOLEAN :
       gd = [NoGd EXCEPT !.instance_ids = ids, !.predictions = PredictionsOf(m),
                         !.rewrite_reports = rewrite, !.exclude_completed = exclude]
  /\ ncalls = 0
  /\ ts = NoTs
  /\ removed = {}
  /\ installed = {}
  /\ sc = NoSc

\* The call itself.
Call_get_dataset_from_preds ==
  /\ ~gd.called
  /\ LET r == get_dataset_from_preds(WideDataset, gd.instance_ids, gd.predictions, RunId,
                                     gd.rewrite_reports, gd.exclude_completed, fs)
     IN gd' = [gd EXCEPT !.called = TRUE, !.raised = r.raised, !.dataset = r.dataset]
  /\ UNCHANGED <<diskVars, auxVars, pc, call, ce, loc, tr, out, mainpc, queue, mainOut, ncalls>>

\* The inputs of make_test_spec taken alone: two instances.
PlanInstances ==
  { Instance(iid, repo, version, manifest, base_commit, test_patch, fail_to_pass) :
      iid \in {"i1", "i2"}, repo \in {"org/a", "org/b", "org/c"}, version \in {"1.0", "2.0"},
      manifest \in {"numpy==1.21", "name: env; numpy"}, base_commit \in {"c1", "c2"},
      test_patch \in {"t1", "t2"}, fail_to_pass \in {"f1", "f2"} }

InitPlan ==
  /\ fs = [d \in LogDirs |-> EmptyDir]
  /\ envs = [p \in {} |-> ""]
  /\ osPath = NoEnv
  /\ handlers = [i \in Instances |-> 0]
  /\ pc = [w \in Workers |-> "idle"]
  /\ call = [w \in Workers |-> NoCall]
  /\ ce = [w \in Workers |-> NoFrame]
  /\ loc = [w \in Workers |-> NoLocals]
  /\ tr = [w \in Workers |-> <<>>]
  /\ out = [w \in Workers |-> NoOut]
  /\ mainpc = "idle"
  /\ queue = <<>>
  /\ mainOut = "none"
  /\ gd = NoGd
  /\ ncalls = 0
  /\ \E a \in PlanInstances, b \in PlanInstances : ts = [NoTs EXCEPT !.instances = <<a, b>>]
  /\ removed = {}
  /\ installed = {}
  /\ sc = NoSc

\* make_test_spec on each of the instances.
Call_make_test_spec ==
  /\ ~ts.called
  /\ ts' = [ts EXCEPT !.called = TRUE,
                      !.plans = [n \in 1..Len(ts.instances) |-> make_test_spec(ts.instances[n])]]
  /\ UNCHANGED <<diskVars, mainVars, removed, installed, sc, pc, call, ce, loc, tr, out, ncalls>>

\* The environment directory p is deleted (rm -rf by whoever maintains the
\* cache) while no call is building or activating it.
RemoveEnv(p) ==
  /\ EnvExists(envs, p)
  /\ Cardinality(removed) < MaxRemovals
  /\ \A w \in Workers : ~(pc[w] \in {"ce_conda", "ce_uv_venv", "ce_uv_pin", "ce_uv_cmd", "ce_activate"} /\ ce[w].path = p)
  /\ envs' = [q \in DOMAIN envs \ {p} |-> envs[q]]
  /\ removed' = removed \cup {p}
  /\ UNCHANGED <<fs, osPath, handlers, mainVars, ts, installed, sc, pc, call, ce, loc, tr, out, ncalls>>

Next ==
  \/ Main_Start
  \/ Main_Finish
  \/ \E w \in Workers : Pool_Start(w)
  \/ \E w \in Workers : Call_run_instance(w)
  \/ \E w \in Workers : run_instance(w)
  \/ \E w \in Workers : create_env(w)
  \/ \E w \in Workers : Collect(w)

\* The harness: main with its pool, and a direct caller of run_instance.
Spec == Init /\ [][Next]_vars

NextEnv ==
  \/ \E w \in Workers : Call_create_env(w)
  \/ \E w \in Workers : create_env(w)
  \/ \E w \in Workers : Collect(w)
  \/ \E p \in DOMAIN envs : RemoveEnv(p)

\* The Environment Manager alone, under concurrent callers.
SpecEnv == Init /\ [][NextEnv]_vars

\* The log directory tree a batch finds: the first instance may have been
\* run before (captured output with or without a report).
InitPool ==
  /\ \E s \in DirStates :
       fs = [d \in LogDirs |-> IF d = LogDir(RunId, ModelName, Dataset[1]) THEN s ELSE EmptyDir]
  /\ envs = [p \in {} |-> ""]
  /\ osPath = NoEnv
  /\ handlers = [i \in Instances |-> 0]
  /\ pc = [w \in Workers |-> "idle"]
  /\ call = [w \in Workers |-> NoCall]
  /\ ce = [w \in Workers |-> NoFrame]
  /\ loc = [w \in Workers |-> NoLocals]
  /\ tr = [w \in Workers |-> <<>>]
  /\ out = [w \in Workers |-> NoOut]
  /\ mainpc = "idle"
  /\ queue = <<>>
  /\ mainOut = "none"
  /\ gd = NoGd
  /\ ncalls = 0
  /\ ts = NoTs
  /\ removed = {}
  /\ installed = {}
  /\ sc = NoSc

\* run_instances (lines 216-239) called with ready TestSpec objects for the
\* first two instances: list(map(make_test_spec, instances)) hands them
\* through unchanged, and run_threadpool runs the payloads on its workers.
Call_run_instances ==
  /\ mainpc = "idle"
  /\ AllIdle
  /\ ncalls < MaxBatches
  /\ \E p1 \in HandPlans, p2 \in HandPlans, rewrite \in BOOLEAN :
       queue' = [n \in 1..2 |->
                   [fn |-> "run_instance", origin |-> "api", inst |-> Dataset[n], model |-> ModelName,
                    patch |-> P_DIFF, rewrite |-> rewrite, plan |-> IF n = 1 THEN p1 ELSE p2]]
  /\ mainpc' = "pool"
  /\ ncalls' = ncalls + 1
  /\ UNCHANGED <<diskVars, auxVars, pc, call, ce, loc, tr, out, mainOut, gd>>

\* run_instances, line 237-238: run_threadpool has ended every payload.
run_instances_Return ==
  /\ mainpc = "pool"
  /\ queue = <<>>
  /\ AllIdle
  /\ mainpc' = "idle"
  /\ UNCHANGED <<diskVars, auxVars, pc, call, ce, loc, tr, out, queue, mainOut, gd, ncalls>>

NextPool ==
  \/ Call_run_instances
  \/ run_instances_Return
  \/ \E w \in Workers : Pool_Start(w)
  \/ \E w \in Workers : run_instance(w)
  \/ \E w \in Workers : create_env(w)
  \/ \E w \in Workers : Collect(w)

\* One batch of run_instances on the pool's workers, with plans that get
\* past create_env.
SpecPool == InitPool /\ [][NextPool]_vars

\* The arguments make_repo_script_list_py is called with.
RepoScriptArgs ==
  { [NoArg EXCEPT !.repo = repo, !.base_commit = base_commit,
                  !.specs = [NoSpecs EXCEPT !.pre_install = pre, !.install = install]] :
      repo \in {"org/a", "org/b"}, base_commit \in {"c1", "c2"},
      pre \in {<<>>, <<"apt-get install -y libfoo">>, <<"sed -i s/a/b/ setup.py", "pip install cython">>},
      install \in {NO_KEY, "python -m pip install -e ."} }

\* The arguments make_eval_script_list_py is called with; one test patch
\* quotes the sentinel lines in its own text.
EvalScriptArgs ==
  { [NoArg EXCEPT !.repo = repo, !.base_commit = base_commit, !.test_patch = test_patch,
                  !.specs = [NoSpecs EXCEPT !.eval_commands = ev, !.install = install]] :
      repo \in {"org/a", "org/b"}, base_commit \in {"c1", "c2"},
      test_patch \in {"diff --git a/tests/test_x.py", "+print('>>>>> Start Test Output')"},
      ev \in {<<>>, <<"locale-gen en_US.UTF-8">>},
      install \in {NO_KEY, "python -m pip install -e ."} }

\* The arguments make_env_script_list is called with: a Python and a
\* non-Python repository, every shape of the packages entry.
EnvScriptArgs ==
  { [NoArg EXCEPT !.repo = repo, !.manifest = manifest,
                  !.specs = [NoSpecs EXCEPT !.packages = packages, !.pip_packages = pip]] :
      repo \in {"org/a", "org/js"}, manifest \in {"", "numpy==1.21"},
      packages \in {NO_KEY, "requirements.txt", "environment.yml", "numpy scipy"},
      pip \in {<<>>, <<"pytest">>} }

\* _decide_python_version. A setup command is the sequence of matches the
\* pattern finds in it, each a (package, comparator, version_str) record; a
\* version_str is its release numbers and whether the digits-and-dots group
\* ended in a dot (as it does for "1.21.*"), which parse() rejects.
LEGACY_TRIGGERS == [numpy |-> <<1, 22, 0>>, scipy |-> <<1, 7, 0>>]

TriggerPackages == {"numpy", "scipy"}

Release(v, i) == IF i <= Len(v) THEN v[i] ELSE 0

\* Version.__lt__: releases compared number by number, the shorter padded
\* with zeros.
VersionLess(a, b) ==
  \E i \in 1..3 : /\ Release(a, i) < Release(b, i)
                  /\ \A j \in 1..(i - 1) : Release(a, j) = Release(b, j)

Parses(version_str) == ~version_str.dot

\* What one match contributes to use_legacy_python.
MatchIsLegacy(m) ==
  /\ m.package \in TriggerPackages
  /\ Parses(m.version_str)
  /\ VersionLess(m.version_str.release, LEGACY_TRIGGERS[m.package])

use_legacy_python(scripts) ==
  \E c \in 1..Len(scripts) : \E k \in 1..Len(scripts[c]) : MatchIsLegacy(scripts[c][k])

\* The interpreter chosen, or RuntimeError when it is not on the machine.
_decide_python_version(scripts, have_legacy, have_modern) ==
  IF use_legacy_python(scripts)
  THEN IF have_legacy THEN "python3.8" ELSE "RuntimeError"
  ELSE IF have_modern THEN "python3.10" ELSE "RuntimeError"

Matches ==
  { [package |-> p, comparator |-> c, version_str |-> [release |-> r, dot |-> d]] :
      p \in {"numpy", "scipy", "pandas"}, c \in {"==", ">=", "<"},
      r \in {<<1, 6>>, <<1, 21>>, <<1, 22>>}, d \in {FALSE} }
  \cup { [package |-> "numpy", comparator |-> "==", version_str |-> [release |-> <<1, 21>>, dot |-> TRUE]] }

SetupCommands == {<<>>} \cup { <<m>> : m \in Matches }

DecideArgs ==
  { [NoArg EXCEPT !.scripts = sq] :
      sq \in { <<a>> : a \in SetupCommands } \cup { <<a, b>> : a \in {<<>>}, b \in SetupCommands }
              \cup { <<a, b>> : a \in SetupCommands, b \in {<<[package |-> "pandas", comparator |-> "==",
                                                              version_str |-> [release |-> <<1, 6>>, dot |-> FALSE]]>>} } }

InitScripts ==
  /\ fs = [d \in LogDirs |-> EmptyDir]
  /\ envs = [p \in {} |-> ""]
  /\ osPath = NoEnv
  /\ handlers = [i \in Instances |-> 0]
  /\ pc = [w \in Workers |-> "idle"]
  /\ call = [w \in Workers |-> NoCall]
  /\ ce = [w \in Workers |-> NoFrame]
  /\ loc = [w \in Workers |-> NoLocals]
  /\ tr = [w \in Workers |-> <<>>]
  /\ out = [w \in Workers |-> NoOut]
  /\ mainpc = "idle"
  /\ queue = <<>>
  /\ mainOut = "none"
  /\ gd = NoGd
  /\ ncalls = 0
  /\ ts = NoTs
  /\ removed = {}
  /\ installed = {}
  /\ \/ \E a \in RepoScriptArgs : sc = [NoSc EXCEPT !.fn = "make_repo_script_list_py", !.arg = a]
     \/ \E a \in EvalScriptArgs : sc = [NoSc EXCEPT !.fn = "make_eval_script_list_py", !.arg = a]
     \/ \E a \in EnvScriptArgs : sc = [NoSc EXCEPT !.fn = "make_env_script_list", !.arg = a]
     \/ \E a \in DecideArgs : sc = [NoSc EXCEPT !.fn = "_decide_python_version", !.arg = a]

\* The builder returns.
ScReturn(cmds, kind) ==
  /\ sc' = [sc EXCEPT !.called = TRUE, !.result = [cmds |-> cmds, kind |-> kind]]
  /\ UNCHANGED <<diskVars, mainVars, ts, removed, installed, pc, call, ce, loc, tr, out, ncalls>>

Call_make_repo_script_list_py ==
  /\ ~sc.called
  /\ sc.fn = "make_repo_script_list_py"
  /\ ScReturn(make_repo_script_list_py(sc.arg.specs, sc.arg.repo, REPO_DIRECTORY, sc.arg.base_commit, ""), "")

Call_make_eval_script_list_py ==
  /\ ~sc.called
  /\ sc.fn = "make_eval_script_list_py"
  /\ ScReturn(make_eval_script_list_py(sc.arg, sc.arg.specs, "", REPO_DIRECTORY, sc.arg.base_commit,
                                       sc.arg.test_patch), "")

Call_make_env_script_list ==
  /\ ~sc.called
  /\ sc.fn = "make_env_script_list"
  /\ LET made == make_env_script_list(sc.arg, sc.arg.specs, ENV_NAME_PLACEHOLDER)
     IN ScReturn(made.cmds, made.env_manager)

Call__decide_python_version ==
  /\ ~sc.called
  /\ sc.fn = "_decide_python_version"
  /\ \E have_legacy \in BOOLEAN, have_modern \in BOOLEAN :
       ScReturn(<<>>, _decide_python_version(sc.arg.scripts, have_legacy, have_modern))

NextScripts ==
  \/ Call__decide_python_version
  \/ Call_make_repo_script_list_py
  \/ Call_make_eval_script_list_py
  \/ Call_make_env_script_list

\* The script builders as functions of their arguments.
SpecScripts == InitScripts /\ [][NextScripts]_vars

\* get_dataset_from_preds as a function of its inputs.
SpecDataset == InitDataset /\ [][Call_get_dataset_from_preds]_vars

\* make_test_spec as a function of the instance.
SpecPlan == InitPlan /\ [][Call_make_test_spec]_vars

\* ================================================================= claims
IsRunInstance(w) == call[w].fn = "run_instance"

\* The call on w is run_instance in normal mode and has ended.
NormalDone(w) == pc[w] = "done" /\ IsRunInstance(w) /\ ~call[w].rewrite

Ran(w, name) == \E n \in 1..Len(tr[w]) : tr[w][n].step = name

RanWith(w, name, ok) == \E n \in 1..Len(tr[w]) : tr[w][n].step = name /\ tr[w][n].ok = ok

IsPatchStep(s) == s.step \in SeqToSet(GIT_APPLY_CMDS)

\* The patch commands the call on w has run, in order.
PatchSteps(w) == SelectSeq(tr[w], IsPatchStep)

STRICT == GIT_APPLY_CMDS[1]

FUZZY == GIT_APPLY_CMDS[3]

\* C1: in normal mode, when report.json is there, run_instance returns the
\* stored report and does nothing else: no subprocess, no file written, no
\* environment touched, no logger set up.
C1_CacheHitShortCircuit ==
  [][\A w \in Workers :
       (/\ pc[w] = "ri_enter"
        /\ ~call[w].rewrite
        /\ fs[LogDirOf(w)][LOG_REPORT] # ABSENT
        /\ pc'[w] # pc[w])
       => (/\ pc'[w] = "done"
           /\ out'[w] = ReturnedReport(fs[LogDirOf(w)][LOG_REPORT])
           /\ tr'[w] = <<>>
           /\ ce'[w] = NoFrame
           /\ UNCHANGED <<fs, envs, osPath, handlers>>)]_vars

\* A normal-mode call that returned a report without running anything.
C1_Witness ==
  \E w \in Workers : NormalDone(w) /\ out[w].kind = "report" /\ tr[w] = <<>>

\* C2: in normal mode no failure of a step leaves run_instance as an
\* exception; a failed call returns with the failure in the instance's log.
C2_NoFailureLeavesRunInstance ==
  \A w \in Workers :
    NormalDone(w) =>
      /\ out[w].kind # "raised"
      /\ out[w].kind = "None" => fs[LogDirOf(w)][LOG_INSTANCE] # LOG_EMPTY

\* The directory of environments of a manager kind.
EnvRoot(kind) == IF kind = "conda" THEN CONDA_ENVS_DIR ELSE UV_ENVS_DIR

\* C3: run_instance hands create_env the plan's command list, the plan's
\* manager kind and the plan's cache key, and the environment path is the
\* one derived from that kind and key.
C3_PlanReachesCreateEnv ==
  \A w \in Workers :
    (IsRunInstance(w) /\ ce[w] # NoFrame) =>
      LET plan == call[w].plan
          path == EnvPath(EnvRoot(plan.env_manager), plan.env_key)
      IN /\ ce[w].scripts = plan.env_script_list
         /\ ce[w].mgr = plan.env_manager
         /\ ce[w].key = plan.env_key
         /\ ce[w].path \in {NoEnv, path}
         /\ loc[w].env_path \in {NoEnv, path}

Building(w) == pc[w] \in {"ce_conda", "ce_uv_venv", "ce_uv_pin", "ce_uv_cmd"}

\* create_env on w found its directory and took the cache-hit branch.
CacheHit(w) == pc[w] = "ce_activate" /\ tr[w] = <<>> /\ EnvExists(envs, ce[w].path)

\* C4: the existence check is satisfied only by a build that ran to the end:
\* a directory that no call is building and that a call takes as a cache hit
\* is complete (an aborted build is not taken as a hit).
C4_NoHitOnAbortedBuild ==
  \A w \in Workers :
    (/\ call[w].fn = "create_env"
     /\ CacheHit(w)
     /\ \A v \in Workers : ~(Building(v) /\ ce[v].path = ce[w].path))
    => envs[ce[w].path] = COMPLETE

\* The directory create_env derives from its arguments.
DerivedPath(f) == EnvPath(EnvRoot(f.mgr), IF f.key = NONE THEN _hash_scripts(f.scripts) ELSE f.key)

\* C5: for both manager kinds and every key, when the derived directory is
\* there create_env runs no command, changes no environment and returns
\* exactly that directory.
C5_CacheHitRunsNothing ==
  [][\A w \in Workers :
       /\ (/\ pc[w] = "ce_enter"
           /\ ce[w].mgr \in {"uv", "conda"}
           /\ EnvExists(envs, DerivedPath(ce[w]))
           /\ pc'[w] # pc[w])
          => (/\ pc'[w] = "ce_activate"
              /\ ce'[w].path = DerivedPath(ce[w])
              /\ tr'[w] = tr[w]
              /\ envs' = envs)
       /\ (pc[w] = "ce_activate" /\ pc'[w] # pc[w])
          => (/\ tr'[w] = tr[w]
              /\ envs' = envs
              /\ call[w].fn = "create_env" => out'[w] = ReturnedPath(ce[w].path))]_vars

\* A direct call that returned an existing directory without a command.
C5_Witness ==
  \E w \in Workers :
    /\ pc[w] = "done"
    /\ call[w].fn = "create_env"
    /\ out[w].kind = "path"
    /\ tr[w] = <<>>
    /\ EnvExists(envs, out[w].path)

\* C6: a call whose eval script ran into the timeout has persisted a report
\* that marks the instance as failed by timeout.
C6_TimeoutPersistsReport ==
  \A w \in Workers :
    (NormalDone(w) /\ RanWith(w, "eval.sh", FALSE)) =>
      fs[LogDirOf(w)][LOG_REPORT] = get_eval_report(OUT_TIMEOUT)

\* The patch commands are tried in the order of GIT_APPLY_CMDS, nothing is
\* tried after a command that exited 0, and the eval script is run exactly
\* when some command exited 0.
PatchOrder(w) ==
  LET ps == PatchSteps(w)
  IN /\ Len(ps) <= Len(GIT_APPLY_CMDS)
     /\ \A n \in 1..Len(ps) : ps[n].step = GIT_APPLY_CMDS[n]
     /\ \A n \in 1..Len(ps) : ps[n].ok => n = Len(ps)
     /\ Ran(w, "eval.sh") => \E n \in 1..Len(ps) : ps[n].ok
     /\ (\E n \in 1..Len(ps) : ps[n].ok) => (pc[w] = "ri_eval" \/ Ran(w, "eval.sh"))

C8_PatchFailurePersistsReport ==
  \A w \in Workers :
    (NormalDone(w) /\ Len(PatchSteps(w)) = Len(GIT_APPLY_CMDS) /\ ~RanWith(w, FUZZY, TRUE)) =>
      /\ fs[LogDirOf(w)][LOG_REPORT] # ABSENT
      /\ ~Ran(w, "eval.sh")
      /\ out[w].kind # "raised"

IsEmptyPatch(patch) == patch \in {P_EMPTY, P_NULL}

\* Position of an instance in the dataset.
DatasetIndex(i) == CHOOSE n \in 1..Len(WideDataset) : WideDataset[n] = i

\* The instances C9 says the normal-mode work set holds.
C9_Expected ==
  {i \in WideInstances :
     /\ gd.instance_ids # <<>> => i \in SeqToSet(gd.instance_ids)
     /\ i \in DOMAIN gd.predictions
     /\ ~IsEmptyPatch(gd.predictions[i].model_patch)
     /\ gd.exclude_completed => fs[LogDir(RunId, ModelName, i)][LOG_REPORT] = ABSENT}

\* C9: in normal mode the returned work set is exactly the requested dataset
\* instances that have a prediction with a non-empty, non-null patch and
\* (unless exclude_completed is false) no report.json, in dataset order and
\* without repetition.
C9_WorkSet ==
  (gd.called /\ ~gd.rewrite_reports /\ ~gd.raised) =>
    /\ SeqToSet(gd.dataset) = C9_Expected
    /\ \A a, b \in 1..Len(gd.dataset) :
         a < b => DatasetIndex(gd.dataset[a]) < DatasetIndex(gd.dataset[b])

\* A normal-mode call with the ids requested in the reverse of the dataset
\* order that kept i1 and i3, in that order, and dropped i2 for its report.
C9_Witness ==
  /\ gd.called /\ ~gd.rewrite_reports /\ ~gd.raised
  /\ gd.exclude_completed
  /\ gd.instance_ids = <<"i3", "i2", "i1">>
  /\ gd.dataset = <<"i1", "i3">>
  /\ "i2" \in DOMAIN gd.predictions
  /\ ~IsEmptyPatch(gd.predictions["i2"].model_patch)
  /\ fs[LogDir(RunId, ModelName, "i2")][LOG_REPORT] # ABSENT

\* C10: in every run of main, in either mode, no instance whose prediction
\* patch is empty or null is in the work set or is handed to run_instance.
C10_EmptyPatchNeverScheduled ==
  /\ \A n \in 1..Len(queue) : ~IsEmptyPatch(queue[n].patch)
  /\ \A w \in Workers : (IsRunInstance(w) /\ call[w].origin = "main") => ~IsEmptyPatch(call[w].patch)

\* No call that main dispatched is running or waiting.
NothingDispatched ==
  /\ mainpc = "idle"
  /\ queue = <<>>
  /\ \A w \in Workers : call[w].origin # "main"

\* The last main call was given a requested id that has no prediction.
MissingPrediction ==
  /\ gd.called
  /\ gd.instance_ids # <<>>
  /\ SeqToSet(gd.instance_ids) \ DOMAIN gd.predictions # {}

\* C11: when instance ids are requested and one of them has no prediction,
\* get_dataset_from_preds raises and main aborts with the error before any
\* instance is executed.
C11_MissingPredictionAborts ==
  MissingPrediction => (gd.raised /\ mainOut = "ValueError" /\ NothingDispatched)

\* The last main call was given a prediction whose id is not in the dataset.
StrayPrediction == gd.called /\ DOMAIN gd.predictions \ Instances # {}

\* C12: when the predictions hold an id that is not in the dataset,
\* get_dataset_from_preds raises and main ends with that error: no plan is
\* built, run_instance is invoked for no instance, no aggregate report.
C12_StrayPredictionAborts ==
  StrayPrediction => (gd.raised /\ mainOut = "ValueError" /\ NothingDispatched)

\* A main call with a prediction for i1 and one for an id outside the
\* dataset has ended with the error.
C12_Witness ==
  /\ StrayPrediction
  /\ "i1" \in DOMAIN gd.predictions
  /\ mainOut = "ValueError"
  /\ NothingDispatched

\* The work set of the last main call holds an instance without a version
\* spec.
WorkSetWithoutSpec ==
  /\ gd.called
  /\ ~gd.raised
  /\ \E n \in 1..Len(gd.dataset) : ~HasSpecs(InstanceOf(gd.dataset[n]).repo, InstanceOf(gd.dataset[n]).version)

\* C13: when an instance of the work set has no version spec, plan building
\* fails and main ends with that error before run_instance is dispatched
\* for any instance of the work set, and without an aggregate report.
C13_MissingSpecAborts ==
  WorkSetWithoutSpec => (mainOut = "KeyError" /\ NothingDispatched)

\* A work set of i1 (which has a version spec) and i4 (which has none), in
\* that order: nothing was dispatched, not even i1.
C13_Witness ==
  /\ WorkSetWithoutSpec
  /\ gd.dataset = <<"i1", "i4">>
  /\ mainOut = "KeyError"
  /\ NothingDispatched
  /\ fs[LogDir(RunId, ModelName, "i1")][LOG_INSTANCE] = ABSENT

\* C14: while the pool runs main has returned nothing; the aggregate report
\* is built in the step that ends the pool, that step is taken only when
\* every payload was started and every call has ended, and it is taken
\* whatever the calls' outcomes were.
C14_ReportAfterAllCalls ==
  [][/\ mainpc = "pool" => mainOut = "running"
     /\ (mainpc = "pool" /\ mainpc' # "pool")
        => (/\ queue = <<>>
            /\ \A w \in Workers : pc[w] = "idle"
            /\ mainOut' = "run_report")
     /\ (mainpc = "pool" /\ mainpc' = "pool") => mainOut' = "running"]_vars

\* main has built the aggregate report after a run in which i1 and i3 were
\* dispatched and both calls failed: each has its log file and no report.
C14_Witness ==
  /\ mainOut = "run_report"
  /\ gd.called /\ ~gd.raised /\ ~gd.rewrite_reports
  /\ gd.dataset = <<"i1", "i3">>
  /\ NothingDispatched
  /\ \A i \in {"i1", "i3"} :
       /\ fs[LogDir(RunId, ModelName, i)][LOG_INSTANCE] # ABSENT
       /\ fs[LogDir(RunId, ModelName, i)][LOG_REPORT] = ABSENT

\* The last main call computed an empty work set.
EmptyWorkSet == gd.called /\ ~gd.raised /\ gd.dataset = <<>>

\* C15: when the work set is empty main builds no plan, invokes
\* run_instance for no instance and returns the aggregate report.
C15_EmptyWorkSetReports ==
  EmptyWorkSet => (mainOut = "run_report" /\ NothingDispatched)

\* A main call whose predictions all have empty or null patches: the work
\* set is empty and the aggregate report is returned.
C15_Witness ==
  /\ EmptyWorkSet
  /\ DOMAIN gd.predictions = {"i1", "i2"}
  /\ ~gd.rewrite_reports
  /\ mainOut = "run_report"
  /\ NothingDispatched

SameEnvInputs(a, b) == a.repo = b.repo /\ a.version = b.version /\ a.manifest = b.manifest

\* C16: two instances with the same repository, version and manifest get
\* plans with the same env_key, whatever their instance id, base commit,
\* test patch and expected tests are.
C16_KeyDeterministic ==
  (ts.called /\ SameEnvInputs(ts.instances[1], ts.instances[2]))
    => ts.plans[1].env_key = ts.plans[2].env_key

\* Two instances that agree on repository, version and manifest and differ
\* in everything else, with a version spec, got the same key.
C16_Witness ==
  /\ ts.called
  /\ SameEnvInputs(ts.instances[1], ts.instances[2])
  /\ ts.instances[1].instance_id # ts.instances[2].instance_id
  /\ ts.instances[1].base_commit # ts.instances[2].base_commit
  /\ ts.instances[1].test_patch # ts.instances[2].test_patch
  /\ ts.instances[1].FAIL_TO_PASS # ts.instances[2].FAIL_TO_PASS
  /\ ts.plans[1] # KeyErrorPlan
  /\ ts.plans[1].env_manager = "conda"
  /\ ts.plans[1].env_key = ts.plans[2].env_key

\* The call on w ran run_instance in normal mode, to its end, on the plan
\* make_test_spec builds for instance i, and did not stop at the result
\* cache.
RanPlanOf(w, i) ==
  /\ NormalDone(w)
  /\ call[w].inst = i
  /\ call[w].plan = make_test_spec(InstanceOf(i))
  /\ ~(out[w].kind = "report" /\ tr[w] = <<>>)

\* C17: i1 and i3, of different repositories and with one manifest, get the
\* same env_key, and a run of either materializes the environment of that
\* key (unless a setup command fails), which the other then finds.
C17_SharedManifestSharesEnv ==
  LET plan == make_test_spec(InstanceOf("i1"))
  IN /\ InstanceOf("i1").repo # InstanceOf("i3").repo
     /\ plan.env_key = make_test_spec(InstanceOf("i3")).env_key
     /\ \A w \in Workers :
          (RanPlanOf(w, "i1") \/ RanPlanOf(w, "i3"))
            => \/ EnvExists(envs, EnvPath(EnvRoot(plan.env_manager), plan.env_key))
               \/ \E n \in 1..Len(tr[w]) : ~tr[w][n].ok

\* The commands of a build that ran to its end.
FullBuild(f) ==
  (IF f.mgr = "uv" THEN <<Step("uv_venv", TRUE), Run("uv_pin", TRUE, f.path, f.path)>> ELSE <<>>)
    \o [n \in 1..Len(f.scripts) |->
          IF f.mgr = "uv" THEN Run("env_cmd", TRUE, f.path, f.path) ELSE Step("env_cmd", TRUE)]

\* C18: a create_env call that does not find the directory of its key,
\* after that directory was removed, takes the build branch for the same
\* path, and a call that returns a path returns the path derived from its
\* arguments, after no command at all or after the whole command sequence.
C18_RemovalForcesRebuild ==
  [][\A w \in Workers :
       /\ (/\ pc[w] = "ce_enter"
           /\ ce[w].mgr \in {"uv", "conda"}
           /\ DerivedPath(ce[w]) \in removed
           /\ ~EnvExists(envs, DerivedPath(ce[w]))
           /\ pc'[w] # pc[w])
          => (/\ pc'[w] = (IF ce[w].mgr = "uv" THEN "ce_uv_venv" ELSE "ce_conda")
              /\ ce'[w].path = DerivedPath(ce[w])
              /\ ce'[w].idx = 1)
       /\ (/\ call[w].fn = "create_env"
           /\ pc[w] # "done"
           /\ pc'[w] = "done"
           /\ out'[w].kind = "path")
          => (/\ out'[w].path = DerivedPath(ce[w])
              /\ tr'[w] \in {<<>>, FullBuild(ce[w])})]_vars

\* A directory that was removed is there again, complete, and a call that
\* ran the whole command sequence returned its path.
C18_Witness ==
  \E w \in Workers :
    /\ pc[w] = "done"
    /\ call[w].fn = "create_env"
    /\ out[w].kind = "path"
    /\ out[w].path \in removed
    /\ tr[w] = FullBuild(ce[w])
    /\ EnvExists(envs, out[w].path)
    /\ envs[out[w].path] = COMPLETE
    /\ \A v \in Workers \ {w} : pc[v] = "idle"

\* C19: the work set main computes in normal mode leaves out every
\* predicted instance whose log directory (run id, model, instance) holds a
\* report.json, the file run_instance persists, and holds every requested
\* instance with a non-empty patch whose directory holds none.
C19_Resumable ==
  [][(ncalls' # ncalls /\ pc' = pc /\ gd'.called /\ ~gd'.rewrite_reports /\ ~gd'.raised)
       => \A i \in DOMAIN gd'.predictions :
            LET pred == gd'.predictions[i]
                report == fs[LogDir(RunId, pred.model_name_or_path, i)][LOG_REPORT]
                requested == gd'.instance_ids = <<>> \/ i \in SeqToSet(gd'.instance_ids)
            IN /\ report # ABSENT => i \notin SeqToSet(gd'.dataset)
               /\ (report = ABSENT /\ requested /\ ~IsEmptyPatch(pred.model_patch))
                    => i \in SeqToSet(gd'.dataset)]_vars

\* run_instance has persisted a report for i1; the main call that followed
\* left i1 out and selected i3, which has no report.
C19_Witness ==
  /\ gd.called /\ ~gd.rewrite_reports /\ ~gd.raised
  /\ DOMAIN gd.predictions = {"i1", "i3"}
  /\ fs[LogDir(RunId, ModelName, "i1")][LOG_REPORT] # ABSENT
  /\ fs[LogDir(RunId, ModelName, "i1")][LOG_TEST_OUTPUT] = OUT_DONE
  /\ gd.dataset = <<"i3">>

\* C20: in rewrite mode run_instance runs nothing and touches no
\* environment; with eval_out.txt missing it raises and writes nothing;
\* with eval_out.txt there it either writes the report graded from it over
\* report.json and returns it, or the grading raises and nothing is written.
C20_RewriteOnlyRegrades ==
  [][\A w \in Workers :
       (pc[w] = "ri_enter" /\ call[w].rewrite /\ pc'[w] # pc[w])
         => LET d == LogDirOf(w)
                report == get_eval_report(fs[d][LOG_TEST_OUTPUT])
            IN /\ pc'[w] = "done"
               /\ tr'[w] = <<>>
               /\ ce'[w] = NoFrame
               /\ UNCHANGED <<envs, osPath, handlers>>
               /\ fs[d][LOG_TEST_OUTPUT] = ABSENT
                    => (out'[w] = Raised("ValueError") /\ fs' = fs)
               /\ fs[d][LOG_TEST_OUTPUT] # ABSENT
                    => \/ out'[w] = ReturnedReport(report) /\ fs' = [fs EXCEPT ![d][LOG_REPORT] = report]
                       \/ out'[w].kind = "raised" /\ fs' = fs]_vars

\* A rewrite-mode call returned the report it wrote over the one that the
\* normal-mode run of the instance had persisted.
C20_Witness ==
  \E w \in Workers :
    /\ pc[w] = "done"
    /\ IsRunInstance(w)
    /\ call[w].rewrite
    /\ out[w].kind = "report"
    /\ tr[w] = <<>>
    /\ fs[LogDirOf(w)][LOG_REPORT] = out[w].report
    /\ fs[LogDirOf(w)][LOG_TEST_OUTPUT] = OUT_DONE
    /\ fs[LogDirOf(w)][LOG_INSTANCE] = LOG_EMPTY

\* C21: an environment directory that exists holds what create_env built
\* and nothing else: no repo-setup script and no eval script of any instance
\* has installed into it.
C21_EnvNeverMutated ==
  \A e \in installed : ~EnvExists(envs, e[1])

\* C22: nothing but the directory itself stands between a call and the
\* build branch: a call whose directory is not there yet takes the build
\* branch for that path also while another worker is building the same path,
\* so both run setup commands into one target.
C22_NoClaimOnTarget ==
  [][\A w \in Workers : \A v \in Workers \ {w} :
       (/\ pc[w] = "ce_enter"
        /\ ce[w].mgr \in {"uv", "conda"}
        /\ ce[w].scripts # <<>>
        /\ Building(v)
        /\ ce[v].path = DerivedPath(ce[w])
        /\ ~EnvExists(envs, DerivedPath(ce[w]))
        /\ pc'[w] # pc[w])
         => /\ pc'[w] = (IF ce[w].mgr = "uv" THEN "ce_uv_venv" ELSE "ce_conda")
            /\ ce'[w].path = ce[v].path]_vars

\* Two workers passed the existence check for the same path and each has
\* run setup commands into it.
C22_Witness ==
  \E w \in Workers : \E v \in Workers \ {w} :
    /\ Building(w)
    /\ Building(v)
    /\ ce[w].path = ce[v].path
    /\ tr[w] # <<>>
    /\ tr[v] # <<>>
    /\ \A n \in 1..Len(tr[w]) : tr[w][n].ok
    /\ \A n \in 1..Len(tr[v]) : tr[v][n].ok

\* The stage of run_instance a subprocess belongs to: 1 SetupEnv (and the
\* removal of a stale work directory), 2 SetupRepo, 3 ApplyPatch, 4 RunTests.
Stage(s) ==
  IF s.step = "repo.sh" THEN 2
  ELSE IF IsPatchStep(s) THEN 3
  ELSE IF s.step = "eval.sh" THEN 4
  ELSE 1

\* The subprocesses of the call on w ran stage by stage, each stage after
\* the success of the one before, and a failed repo-setup script ended the
\* call with no patch command, no eval run and no report.
StageOrder(w) ==
  /\ \A m, n \in 1..Len(tr[w]) : m < n => Stage(tr[w][m]) <= Stage(tr[w][n])
  /\ \A n \in 1..Len(tr[w]) : (Stage(tr[w][n]) = 1 /\ ~tr[w][n].ok) => n = Len(tr[w])
  /\ Ran(w, "repo.sh") => loc[w].env_path = ce[w].path /\ ce[w].path # NoEnv
  /\ (\E n \in 1..Len(tr[w]) : Stage(tr[w][n]) > 2) => RanWith(w, "repo.sh", TRUE)
  /\ Ran(w, "eval.sh") => \E n \in 1..Len(tr[w]) : IsPatchStep(tr[w][n]) /\ tr[w][n].ok
  /\ (pc[w] = "ri_report" \/ (pc[w] = "done" /\ out[w].kind = "report" /\ tr[w] # <<>>))
       => RanWith(w, "eval.sh", TRUE)
  /\ RanWith(w, "repo.sh", FALSE)
       => /\ pc[w] = "done"
          /\ tr[w][Len(tr[w])].step = "repo.sh"
          /\ out[w].kind = "None"

\* The failure records run_instance writes to the instance's log.
FailureRecords == {LOG_ERROR, LOG_PATCH_FAIL, LOG_TIMEOUT}

\* C23: in normal mode the steps of run_instance happen stage by stage and
\* every call that ended without a report returned with its failure in the
\* instance's log.
C23_StagesInOrderAndLogged ==
  \A w \in Workers :
    (IsRunInstance(w) /\ ~call[w].rewrite) =>
      /\ StageOrder(w)
      /\ (pc[w] = "done" /\ out[w].kind # "report")
           => /\ out[w].kind = "None"
              /\ fs[LogDirOf(w)][LOG_INSTANCE] \in FailureRecords

\* C24: report.json changes only by a step of a run_instance call on that
\* log directory, and in normal mode only by the report step of a call whose
\* repo-setup script exited 0, one of whose patch commands exited 0 and whose
\* eval script ended within the timeout; so a report that no rewrite-mode
\* call wrote comes from an attempt that completed all of these.
C24_ReportOnlyAfterFullRun ==
  [][\A d \in DOMAIN fs :
       fs'[d][LOG_REPORT] # fs[d][LOG_REPORT]
         => \E w \in Workers :
              /\ IsRunInstance(w)
              /\ LogDirOf(w) = d
              /\ pc'[w] = "done"
              /\ \/ call[w].rewrite /\ pc[w] = "ri_enter"
                 \/ /\ ~call[w].rewrite
                    /\ pc[w] = "ri_report"
                    /\ RanWith(w, "repo.sh", TRUE)
                    /\ \E n \in 1..Len(tr[w]) : IsPatchStep(tr[w][n]) /\ tr[w][n].ok
                    /\ RanWith(w, "eval.sh", TRUE)
                    /\ ~RanWith(w, "eval.sh", FALSE)
                    /\ fs[d][LOG_TEST_OUTPUT] = OUT_DONE]_vars

\* A normal-mode call wrote the report after its repo-setup script, the
\* strict patch command and its eval script had all succeeded.
C24_Witness ==
  \E w \in Workers :
    /\ NormalDone(w)
    /\ out[w].kind = "report"
    /\ fs[LogDirOf(w)][LOG_REPORT] = out[w].report
    /\ RanWith(w, "repo.sh", TRUE)
    /\ RanWith(w, STRICT, TRUE)
    /\ RanWith(w, "eval.sh", TRUE)

C26_TimeoutContained ==
  \A w \in Workers :
    NormalDone(w) =>
      LET d == LogDirOf(w)
      IN /\ RanWith(w, "eval.sh", FALSE)
              => /\ out[w] = ReturnedNone
                 /\ fs[d][LOG_TEST_OUTPUT] = OUT_TIMEOUT
                 /\ fs[d][LOG_INSTANCE] = LOG_TIMEOUT
                 /\ tr[w][Len(tr[w])].step = "eval.sh"
         /\ (out[w].kind # "report" /\ ~RanWith(w, "eval.sh", FALSE))
              => fs[d][LOG_INSTANCE] # LOG_TIMEOUT
         /\ (tr[w] # <<>> /\ out[w].kind = "report")
              => fs[d][LOG_TEST_OUTPUT] # OUT_TIMEOUT

\* A call ended at the timeout of its eval script.
C26_Witness ==
  \E w \in Workers :
    /\ NormalDone(w)
    /\ RanWith(w, "eval.sh", FALSE)
    /\ out[w] = ReturnedNone
    /\ fs[LogDirOf(w)][LOG_TEST_OUTPUT] = OUT_TIMEOUT
    /\ fs[LogDirOf(w)][LOG_INSTANCE] = LOG_TIMEOUT

\* C27: whenever create_env returns a path, as a cache hit or after its own
\* build, the whole command sequence of that key has been run to the end
\* with exit status 0 (by this call, or the directory is complete), and no
\* other worker is still building that path.
C27_ReturnedEnvIsComplete ==
  [][\A w \in Workers :
       (pc[w] = "ce_activate" /\ pc'[w] # pc[w])
         => /\ \/ tr[w] = FullBuild(ce[w])
               \/ EnvExists(envs, ce[w].path) /\ envs[ce[w].path] = COMPLETE
            /\ \A v \in Workers \ {w} : ~(Building(v) /\ ce[v].path = ce[w].path)]_vars

\* C28: when the repo-setup script of a call is started, the first entry of
\* the PATH it is given is the environment create_env returned to that
\* call, whatever the other workers did in between.
C28_OwnEnvFirstOnPath ==
  \A w \in Workers : \A n \in 1..Len(tr[w]) :
    tr[w][n].step = "repo.sh" => tr[w][n].path = loc[w].env_path

\* The install commands of the list that the call on w has run so far.
ListCmdsRun(w) == Len(SelectSeq(tr[w], LAMBDA st : st.step = "env_cmd"))

\* C29: every command a build runs is the next one of its sequence (for the
\* commands of the list: the one at the loop index, which then moves on by
\* one), nothing is run after a command that exited non-zero, and the
\* command that exits non-zero ends the call with CalledProcessError: no
\* path is returned and PATH is not touched.
C29_FirstFailureAborts ==
  [][\A w \in Workers :
       (call[w].fn = "create_env" /\ Building(w) /\ tr'[w] # tr[w])
         => LET n == Len(tr[w]) + 1
            IN /\ \A m \in 1..Len(tr[w]) : tr[w][m].ok
               /\ n <= Len(FullBuild(ce[w]))
               /\ Len(tr'[w]) = n
               /\ SubSeq(tr'[w], 1, n - 1) = tr[w]
               /\ tr'[w][n].step = FullBuild(ce[w])[n].step
               /\ tr'[w][n].step = "env_cmd"
                    => /\ ce[w].idx = ListCmdsRun(w) + 1
                       /\ tr'[w][n].ok => ce'[w].idx = ce[w].idx + 1
               /\ ~tr'[w][n].ok
                    => /\ pc'[w] = "done"
                       /\ out'[w] = Raised("CalledProcessError")
                       /\ osPath' = osPath]_vars

\* A build was aborted by a command that exited non-zero while commands of
\* its sequence were still to run; PATH does not name its directory.
C29_Witness ==
  \E w \in Workers :
    /\ call[w].fn = "create_env"
    /\ pc[w] = "done"
    /\ out[w] = Raised("CalledProcessError")
    /\ tr[w] # <<>>
    /\ ~tr[w][Len(tr[w])].ok
    /\ Len(tr[w]) < Len(FullBuild(ce[w]))
    /\ osPath # ce[w].path

\* C30: what a call of the uv backend has run is, in this order, `uv venv`,
\* the pin of the packaging tools, then the commands of the list; the
\* interpreter is chosen before any of them (a call that failed there ran
\* nothing); a command of the list runs only after the pin exited 0, and it
\* runs with VIRTUAL_ENV set to the environment and the environment's bin
\* directory first on its PATH.
C30_UvBuildOrder ==
  \A w \in Workers :
    (call[w].fn = "create_env" /\ ce[w].mgr = "uv") =>
      /\ Len(tr[w]) <= 2 + Len(ce[w].scripts)
      /\ \A n \in 1..Len(tr[w]) :
           /\ tr[w][n].step = (IF n = 1 THEN "uv_venv" ELSE IF n = 2 THEN "uv_pin" ELSE "env_cmd")
           /\ n > 1 => tr[w][n - 1].ok
           /\ n > 2 => /\ tr[w][2] = Run("uv_pin", TRUE, ce[w].path, ce[w].path)
                        /\ tr[w][n].venv = ce[w].path
                        /\ tr[w][n].path = ce[w].path
                        /\ ce[w].path = DerivedPath(ce[w])
      /\ out[w] = Raised("RuntimeError") => tr[w] = <<>>

\* A call of the uv backend built its environment with a list of two
\* commands and returned the path.
C30_Witness ==
  \E w \in Workers :
    /\ call[w].fn = "create_env"
    /\ ce[w].mgr = "uv"
    /\ pc[w] = "done"
    /\ out[w] = ReturnedPath(ce[w].path)
    /\ Len(ce[w].scripts) = 2
    /\ tr[w] = FullBuild(ce[w])
    /\ tr[w][4].venv = ce[w].path

\* The placeholder-bearing command sequence of an instance (lines 95-100).
PlaceholderScripts(instance) ==
  make_env_script_list_py(instance, SpecsOf(instance.repo, instance.version), ENV_NAME_PLACEHOLDER).cmds

\* C31: the plan's env_key is the 22-character digest of the text of the
\* placeholder-bearing command sequence, and the plan's final sequence is
\* that sequence with the key in every place of the placeholder: no command
\* carries the placeholder, and every environment name in it is env_key.
C31_KeyReplacesPlaceholder ==
  ts.called =>
    \A n \in 1..Len(ts.plans) :
      LET plan == ts.plans[n]
          raw == PlaceholderScripts(ts.instances[n])
      IN plan # KeyErrorPlan =>
           /\ plan.env_key = Sha22("str", raw)
           /\ Len(plan.env_script_list) = Len(raw)
           /\ \A k \in 1..Len(raw) :
                /\ plan.env_script_list[k].op = raw[k].op
                /\ plan.env_script_list[k].name # ENV_NAME_PLACEHOLDER
                /\ raw[k].name = ENV_NAME_PLACEHOLDER => plan.env_script_list[k].name = plan.env_key
                /\ raw[k].name # ENV_NAME_PLACEHOLDER => plan.env_script_list[k] = raw[k]

\* A plan was built whose sequence names the environment in more than one
\* command, each time by the plan's key.
C31_Witness ==
  /\ ts.called
  /\ \E n \in 1..Len(ts.plans) :
       /\ ts.plans[n] # KeyErrorPlan
       /\ \E j, k \in 1..Len(ts.plans[n].env_script_list) :
            /\ j # k
            /\ ts.plans[n].env_script_list[j].name = ts.plans[n].env_key
            /\ ts.plans[n].env_script_list[k].name = ts.plans[n].env_key

\* The place of the first command of q that equals c (0 when there is none).
IndexOf(q, c) ==
  IF \E n \in 1..Len(q) : q[n] = c
  THEN CHOOSE n \in 1..Len(q) : q[n] = c /\ \A m \in 1..(n - 1) : q[m] # c
  ELSE 0

\* The bootstrap commands of a repository and its spec, in the stated order.
Bootstrap(a) ==
  (IF a.repo \in ReposWithInstall THEN <<MAP_REPO_TO_INSTALL(a.repo)>> ELSE <<>>)
  \o a.specs.pre_install
  \o (IF a.specs.install # NO_KEY THEN <<a.specs.install>> ELSE <<>>)

\* C32: the repo-setup command list starts with the clone, has the hard
\* reset to the base commit after it, the removal of the remote after that,
\* then the bootstrap commands (the repository's install command, the
\* pre_install commands, the install command), and ends with the baseline
\* commit, after every bootstrap command.
C32_RepoScriptOrder ==
  (sc.called /\ sc.fn = "make_repo_script_list_py") =>
    LET r == sc.result.cmds
        a == sc.arg
        reset == IndexOf(r, "git reset --hard " \o a.base_commit)
        remote == IndexOf(r, "git remote remove origin")
        boot == Bootstrap(a)
    IN /\ r[1] = "git clone -o origin https://github.com/" \o a.repo \o " " \o REPO_DIRECTORY
       /\ 1 < reset
       /\ reset < remote
       /\ remote + Len(boot) < Len(r)
       /\ SubSeq(r, remote + 1, remote + Len(boot)) = boot
       /\ r[Len(r)] = GIT_COMMIT_BASELINE
       /\ \A n \in 1..(Len(r) - 1) : r[n] # GIT_COMMIT_BASELINE

\* A list was built for a repository with an install command of its own,
\* two pre_install commands and an install command.
C32_Witness ==
  /\ sc.called
  /\ sc.fn = "make_repo_script_list_py"
  /\ sc.arg.repo \in ReposWithInstall
  /\ Len(sc.arg.specs.pre_install) = 2
  /\ sc.arg.specs.install # NO_KEY
  /\ Len(sc.result.cmds) = 12

\* How many commands of q equal c.
Count(q, c) == Cardinality({n \in 1..Len(q) : q[n] = c})

\* C33: the eval command list ends with: reset of the test files to the
\* base commit, the test patch applied through a quoted heredoc, the start
\* sentinel, the test command, the end sentinel, the reset again; each
\* sentinel occurs once, with the test command alone between them.
C33_EvalScriptTail ==
  (sc.called /\ sc.fn = "make_eval_script_list_py") =>
    LET r == sc.result.cmds
        a == sc.arg
        n == Len(r)
        reset == "git checkout " \o a.base_commit \o " " \o ModifiedFiles(a.test_patch)
    IN /\ n >= 6
       /\ SubSeq(r, n - 5, n) =
            << reset,
               "git apply -v - <<'" \o HEREDOC_DELIMITER \o "'\n" \o a.test_patch \o "\n" \o HEREDOC_DELIMITER,
               START_TEST_OUTPUT,
               TestCommand(a),
               END_TEST_OUTPUT,
               reset >>
       /\ Count(r, START_TEST_OUTPUT) = 1
       /\ Count(r, END_TEST_OUTPUT) = 1
       /\ IndexOf(r, END_TEST_OUTPUT) = IndexOf(r, START_TEST_OUTPUT) + 2

\* A list was built for a spec with eval_commands and an install command
\* and a test patch that quotes a sentinel line.
C33_Witness ==
  /\ sc.called
  /\ sc.fn = "make_eval_script_list_py"
  /\ sc.arg.specs.eval_commands # <<>>
  /\ sc.arg.specs.install # NO_KEY
  /\ sc.arg.test_patch = "+print('>>>>> Start Test Output')"
  /\ Len(sc.result.cmds) = 14

\* C34: the manager kind make_env_script_list returns is "uv" or "conda";
\* for a Python repository it is "conda" exactly when the packages entry is
\* environment.yml, for any other repository it is "uv"; and the returned
\* commands hold a `conda env create` exactly when the kind is "conda".
C34_ManagerKind ==
  (sc.called /\ sc.fn = "make_env_script_list") =>
    LET r == sc.result
        a == sc.arg
    IN /\ r.kind \in {"uv", "conda"}
       /\ MAP_REPO_TO_EXT(a.repo) = "py"
            => (r.kind = "conda" <=> a.specs.packages = "environment.yml")
       /\ MAP_REPO_TO_EXT(a.repo) # "py" => r.kind = "uv"
       /\ (\E n \in 1..Len(r.cmds) : r.cmds[n].op = "conda env create") <=> r.kind = "conda"

\* The call was made for a Python repository whose packages entry is an
\* explicit package list, and it returned the uv kind with its commands.
C34_Witness ==
  /\ sc.called
  /\ sc.fn = "make_env_script_list"
  /\ MAP_REPO_TO_EXT(sc.arg.repo) = "py"
  /\ sc.arg.specs.packages = "numpy scipy"
  /\ sc.result.kind = "uv"
  /\ \E n \in 1..Len(sc.result.cmds) : sc.result.cmds[n].op = "cat > requirements.txt: numpy\nscipy"

\* C35: in the conda backend every create command is executed without its
\* -n/--name flag and with --prefix set to the path derived from the key,
\* so that the environment it creates is at that path; every other command
\* is executed as it stands.
C35_CreateLandsAtCachePath ==
  [][\A w \in Workers :
       (pc[w] = "ce_conda" /\ tr'[w] # tr[w])
         => LET cmd == ce[w].scripts[ce[w].idx]
                executed == CondaRewrite(cmd, ce[w].path)
            IN /\ ce[w].path = DerivedPath(ce[w])
               /\ ~IsCreateCmd(cmd) => (executed = cmd /\ DOMAIN envs' = DOMAIN envs)
               /\ IsCreateCmd(cmd)
                    => /\ executed.name = ""
                       /\ executed.prefix = ce[w].path
                       /\ DOMAIN envs' \subseteq DOMAIN envs \cup {ce[w].path}
                       /\ tr'[w][Len(tr'[w])].ok => EnvExists(envs', ce[w].path)]_vars

\* A constraint every solution of which is below the threshold.
PutsBelow(m) ==
  /\ m.package \in TriggerPackages
  /\ \/ m.comparator = "==" /\ VersionLess(m.version_str.release, LEGACY_TRIGGERS[m.package])
     \/ m.comparator = "<" /\ ~VersionLess(LEGACY_TRIGGERS[m.package], m.version_str.release)

\* C36: _decide_python_version takes the legacy interpreter exactly when
\* some command constrains numpy or scipy to versions below the package's
\* threshold, and the modern one otherwise.
C36_LegacyIffBelowThreshold ==
  (sc.called /\ sc.fn = "_decide_python_version")
    => LET scripts == sc.arg.scripts
           below == \E c \in 1..Len(scripts) : \E k \in 1..Len(scripts[c]) : PutsBelow(scripts[c][k])
       IN /\ sc.result.kind = "python3.8" => below
          /\ sc.result.kind = "python3.10" => ~below

\* C37: every instance of the work set get_dataset_from_preds returns, in
\* normal and in rewrite mode, is a key of the predictions map, so that the
\* lookup run_instances makes for its payload finds an entry.
C37_WorkSetHasPredictions ==
  (gd.called /\ ~gd.raised)
    => \A n \in 1..Len(gd.dataset) : gd.dataset[n] \in DOMAIN gd.predictions

\* A call that returns a non-empty work set although an instance it was
\* asked for has no prediction.
C37_Witness ==
  /\ gd.called
  /\ ~gd.raised
  /\ gd.dataset # <<>>
  /\ \E i \in SeqToSet(WideDataset) \ DOMAIN gd.predictions :
       gd.instance_ids = <<>> \/ i \in SeqToSet(gd.instance_ids)

\* C38: whenever no run_instance call is in progress, whatever calls have
\* returned or raised before, no per-instance logger has a handler attached.
C38_NoHandlerLeftAfterExit ==
  (\A w \in Workers : pc[w] \in {"idle", "done"})
    => \A i \in Instances : handlers[i] = 0
====
